---- MODULE Spec2Model ----
(***************************************************************************)
(* A model of the quantum-ca repository: the classical Game-of-Life step   *)
(* (simulation.ts), the reversible register laboratory                     *)
(* (hooks/useReversibleLife.ts) and the genetic rule search                *)
(* (hooks/useRuleSearch.ts).                                               *)
(*                                                                         *)
(* React semantics used throughout: a hook callback runs to completion     *)
(* with the values its closure captured at the last render; the state      *)
(* updates it queued are then committed, the component re-renders and the  *)
(* effects whose dependencies changed run (cleanup first), all before the  *)
(* next event or timer callback is dispatched.  One action of the model is *)
(* one callback together with that commit.                                 *)
(***************************************************************************)
EXTENDS Integers, Sequences, FiniteSets, TLC

VARIABLES
    \* ---- pure-function bench for performGOLStep ----
    golInput,      \* the grid the run started from
    golGrid,       \* the current grid
    golSteps,      \* number of performGOLStep applications so far
    \* ---- useReversibleLife ----
    systemGrid,    \* useState systemGrid
    targetGrid,    \* useState targetGrid
    lastOp,        \* name of the last hook operation called
    advanceOk,     \* return value of the last advanceCycle call ("none" before)
    opCount,       \* number of hook operations called so far
    computeRun,    \* the run of consecutive computeIntoTarget calls just made: target before it, length
    opLog,         \* the register operations just called in a row, each with the registers before it
    \* ---- useRuleSearch ----
    isSearching,               \* useState isSearching
    searchProgress,            \* useState searchProgress: [generation, bestFitness]
    bestParams,                \* useState bestParams (NoParams or <<a parameter set>>)
    populationRef,             \* populationRef.current
    generationRef,             \* generationRef.current
    timeoutRef,                \* timeoutRef.current (NoTimer or a timer id)
    groundTruthTrajectoryRef,  \* groundTruthTrajectoryRef.current
    pendingTimers,             \* window timers not yet fired or cleared:
                               \* id -> the values the scheduled runGeneration captured
    lastEvent,                 \* the callback that ran last
    lastTopFitness,            \* bestIndividual.fitness of the last generation run
    lastFitnessScores,         \* the fitness values of fitnessScores, sorted, of the last generation run
    maxTopFitness,             \* largest bestIndividual.fitness since the last initializeSearch
    tieRoundsUp,               \* floating point: whether a quotient that is exactly 1/2
                               \* is computed as >= 0.5
    \* ---- pure-function bench for performQuantumStep ----
    qInput,        \* the grid performQuantumStep is called on
    qParams,       \* the parameters it is called with
    qOutput,       \* the grid it returned (NoGrid before the call)
    \* ---- pure-function bench for calculateFitness ----
    fitParams,     \* the candidate calculateFitness is called on
    fitTrajectory, \* groundTruthTrajectoryRef.current at the call
    fitOutcome,    \* what the call did (NotCalled before it)
    \* ---- useQuantumLife, with the parameter handlers of App ----
    lifeGrid,          \* useState grid
    lifeGeneration,    \* useState generation
    isRunning,         \* useState isRunning
    lifeParams,        \* useState params
    animationFrameId,  \* animationFrameId.current (NoFrame or a frame id)
    pendingFrames,     \* animation frames requested and not yet fired or cancelled:
                       \* id -> the params the scheduled runSimulation captured
    lastStepParams,    \* the params the last simulationStep read (NoParams before any)
    lifeEvent          \* the callback that ran last

golVars == <<golInput, golGrid, golSteps>>
revVars == <<systemGrid, targetGrid, lastOp, advanceOk, opCount, computeRun, opLog>>
searchVars == <<isSearching, searchProgress, bestParams, populationRef, generationRef,
                timeoutRef, groundTruthTrajectoryRef, pendingTimers, lastEvent,
                lastTopFitness, lastFitnessScores, maxTopFitness, tieRoundsUp>>
quantumVars == <<qInput, qParams, qOutput>>
fitVars == <<fitParams, fitTrajectory, fitOutcome>>
benchVars == <<quantumVars, fitVars>>
lifeVars == <<lifeGrid, lifeGeneration, isRunning, lifeParams, animationFrameId,
              pendingFrames, lastStepParams, lifeEvent>>
vars == <<golVars, revVars, searchVars, benchVars, lifeVars>>

----------------------------------------------------------------------------
(* Bounds of the model *)

\* side of the reversible lab's registers (32 in the source)
GRID_SIZE == 5
\* number of hook operations explored from construction
MaxOps == 4
\* toggleSystemCell is called with coordinates in 0..MaxToggleCoord
MaxToggleCoord == 1
\* performGOLStep is applied to every 0/1 grid of at most MaxCells cells
MaxCells == 9
\* side of the torus the glider is placed on
GliderTorus == 5
\* applications of performGOLStep in one run of the bench
MaxGolSteps == 4
\* individuals of the search population (50 in the source)
POPULATION_SIZE == 3
\* steps of one fitness evaluation (15 in the source)
FITNESS_SIM_STEPS == 2
\* side of the fitness grid (32 in the source)
FITNESS_GRID_SIZE == 3
\* trailing steps without a flip that count as stagnation (4 in the source)
STAGNATION_CHECK_LENGTH == 2
\* Math.random() returns one of 0/RandomDen .. (RandomDen-1)/RandomDen
RandomDen == 4
\* coefficient parts that one call of mutate changes, at most
MaxMutations == 1
\* GA generations explored after an initialisation
MaxGen == 2
\* further generations explored once a generation has converged
MaxResumed == 1
\* cells of the grids on which performQuantumStep is called once
MaxQCells == 4
\* consecutive register operations remembered with the registers before them
MaxLog == 3
\* width and height of the simulation grid (128 in the source)
GRID_WIDTH == 3
GRID_HEIGHT == 3
\* simulation steps explored after a reset of the grid
MaxGeneration == 3

----------------------------------------------------------------------------
(* Constants of useRuleSearch.ts, as integers *)

ELITISM_COUNT == 2
\* MUTATION_RATE = 0.1, MUTATION_AMOUNT = 0.1, CROSSOVER_RATE = 0.7,
\* SELECTION_NOISE_PROBABILITY = 0.1, in tenths
MUTATION_RATE_TENTHS == 1
MUTATION_AMOUNT_TENTHS == 1
CROSSOVER_RATE_TENTHS == 7
SELECTION_NOISE_TENTHS == 1
\* POPULATION_PENALTY_WEIGHT = 1.5, DYNAMISM_ERROR_WEIGHT = 1.0,
\* DYNAMISM_BONUS_MULTIPLIER = 1.5, in halves
POPULATION_PENALTY_HALVES == 3
DYNAMISM_ERROR_HALVES == 2
DYNAMISM_BONUS_HALVES == 3
\* the success threshold 1.49, in hundredths
SUCCESS_HUNDREDTHS == 149
\* the improvement tolerance 1e-9, as its inverse
TOLERANCE_INVERSE == 1000000000

----------------------------------------------------------------------------
(* Grids: a grid is a function 0..H-1 -> (0..W-1 -> value), as the arrays  *)
(* of the source are.                                                      *)

Height(grid) == Cardinality(DOMAIN grid)
Width(grid) == Cardinality(DOMAIN grid[0])

AllGrids(h, w) == [0..(h-1) -> [0..(w-1) -> {0, 1}]]

RECURSIVE SumSeq(_)
SumSeq(s) == IF s = <<>> THEN 0 ELSE Head(s) + SumSeq(Tail(s))

\* grid.reduce((acc,row) => acc + row.reduce(...)) : number of live cells
Population(grid) ==
    LET h == Height(grid)
        w == Width(grid)
    IN SumSeq([k \in 1..(h*w) |-> grid[(k-1) \div w][(k-1) % w]])

\* the (i,j) pairs visited by the two nested loops, (0,0) skipped
NeighborOffsets ==
    << <<-1,-1>>, <<-1,0>>, <<-1,1>>,
       <<0,-1>>,            <<0,1>>,
       <<1,-1>>,  <<1,0>>,  <<1,1>> >>

\* a step on a bounded board: a neighbour beyond the edge counts as dead
neighborCount_noWrap(grid, y, x) ==
    LET gridHeight == Height(grid)
        gridWidth == Width(grid)
    IN SumSeq([k \in 1..Len(NeighborOffsets) |->
                 LET ny == y + NeighborOffsets[k][1]
                     nx == x + NeighborOffsets[k][2]
                 IN IF ny \in 0..(gridHeight-1) /\ nx \in 0..(gridWidth-1)
                    THEN grid[ny][nx] ELSE 0])

neighborCount(grid, y, x) ==
    LET gridHeight == Height(grid)
        gridWidth == Width(grid)
    IN SumSeq([k \in 1..Len(NeighborOffsets) |->
                 LET i == NeighborOffsets[k][1]
                     j == NeighborOffsets[k][2]
                     ny == (y + i + gridHeight) % gridHeight
                     nx == (x + j + gridWidth) % gridWidth
                 IN grid[ny][nx]])

\* survival on two neighbours only
nextCell_survive2(cell, count) ==
    IF cell = 1 /\ count = 2 THEN 1
    ELSE IF cell = 0 /\ count = 3 THEN 1
    ELSE 0

\* the if / else-if / else of the inner loop body
nextCell(cell, count) ==
    IF cell = 1 /\ (count = 2 \/ count = 3) THEN 1
    ELSE IF cell = 0 /\ count = 3 THEN 1
    ELSE 0

\* the rule applied in row-major order to the grid being read, so that a
\* cell sees the new values of the neighbours before it
RECURSIVE updateInPlace(_, _)
updateInPlace(grid, k) ==
    IF k >= Height(grid) * Width(grid) THEN grid
    ELSE LET y == k \div Width(grid)
             x == k % Width(grid)
         IN updateInPlace([grid EXCEPT ![y][x] = nextCell(grid[y][x], neighborCount(grid, y, x))],
                          k + 1)
performGOLStep_inPlace(grid) == updateInPlace(grid, 0)

performGOLStep(grid) ==
    [y \in 0..(Height(grid)-1) |->
        [x \in 0..(Width(grid)-1) |->
            nextCell(grid[y][x], neighborCount(grid, y, x))]]

----------------------------------------------------------------------------
(* constants.ts: the pattern catalogue, rows top to bottom *)

PATTERNS ==
    [ Random  |-> <<>>,
      Clear   |-> <<>>,
      Glider  |-> << <<0,1,0>>,
                     <<0,0,1>>,
                     <<1,1,1>> >>,
      LWSS    |-> << <<1,0,0,1,0>>,
                     <<0,0,0,0,1>>,
                     <<1,0,0,0,1>>,
                     <<0,1,1,1,1>> >>,
      Blinker |-> << <<1,1,1>> >> ]

PatternNames == DOMAIN PATTERNS

\* Array.from({length: n}, () => Array(n).fill(fill))
createGridOf(n, fill) == [y \in 0..(n-1) |-> [x \in 0..(n-1) |-> fill]]

\* the centred placement of placePattern, on a square grid of side n
placePatternOn(n, pattern) ==
    IF Len(pattern) = 0 THEN createGridOf(n, 0)
    ELSE LET patternHeight == Len(pattern)
             patternWidth == Len(pattern[1])
             startY == (n - patternHeight) \div 2
             startX == (n - patternWidth) \div 2
         IN [y \in 0..(n-1) |-> [x \in 0..(n-1) |->
                IF /\ y - startY \in 0..(patternHeight-1)
                   /\ x - startX \in 0..(patternWidth-1)
                   /\ pattern[y - startY + 1][x - startX + 1] = 1
                THEN 1 ELSE 0]]

\* the grid moved by (dy,dx) on the torus: cell (y,x) goes to (y+dy, x+dx)
Translate(grid, dy, dx) ==
    LET h == Height(grid)
        w == Width(grid)
    IN [y \in 0..(h-1) |-> [x \in 0..(w-1) |->
            grid[(y - dy + h) % h][(x - dx + w) % w]]]

----------------------------------------------------------------------------
(* The bench: performGOLStep applied repeatedly to a chosen grid *)

GolDims == {d \in (1..MaxCells) \X (1..MaxCells) : d[1] * d[2] <= MaxCells}

GliderGrids ==
    {Translate(placePatternOn(GliderTorus, PATTERNS.Glider), dy, dx) :
        dy \in 0..(GliderTorus-1), dx \in 0..(GliderTorus-1)}

GolInputs == UNION {AllGrids(d[1], d[2]) : d \in GolDims} \cup GliderGrids

GolStart ==
    /\ golInput \in GolInputs
    /\ golGrid = golInput
    /\ golSteps = 0

GolIdle ==
    /\ golInput = createGridOf(1, 0)
    /\ golGrid = golInput
    /\ golSteps = MaxGolSteps

GolStep ==
    /\ golSteps < MaxGolSteps
    /\ golGrid' = performGOLStep(golGrid)
    /\ golSteps' = golSteps + 1
    /\ UNCHANGED <<golInput, revVars, searchVars, benchVars, lifeVars>>

----------------------------------------------------------------------------
(* hooks/useReversibleLife.ts *)

createGrid(fill) == createGridOf(GRID_SIZE, fill)

\* grid.map(row => [...row]) : a copy with the same contents
cloneGrid(grid) == [y \in DOMAIN grid |-> [x \in DOMAIN grid[y] |-> grid[y][x]]]

placePattern(pattern) == placePatternOn(GRID_SIZE, pattern)

\* value ^ update on 0/1 values
\* variant: inclusive or
BitXor_or(a, b) == IF a + b >= 1 THEN 1 ELSE 0

BitXor(a, b) == (a + b) % 2

\* the grids Math.random() > 0.7 can draw: a few of them stand for all
RandomGrids ==
    {[y \in 0..(GRID_SIZE-1) |-> [x \in 0..(GRID_SIZE-1) |->
        IF (y * GRID_SIZE + x) % m = r THEN 1 ELSE 0]] : m \in 2..3, r \in 0..1}

\* useMemo values of the current render
computePreview == performGOLStep(systemGrid)
systemPopulation == Population(systemGrid)
targetPopulation == Population(targetGrid)
\* cleanliness read off the wrong register
isTargetClean_system == systemPopulation = 0

isTargetClean == targetPopulation = 0

\* no computeIntoTarget call was the last operation
NoRun == [start |-> createGrid(0), length |-> 0]

\* the run after one more computeIntoTarget call; a third call starts a new run
ExtendedRun ==
    IF computeRun.length = 1 THEN [computeRun EXCEPT !.length = 2]
    ELSE [start |-> targetGrid, length |-> 1]

\* the operations that act on the pair of registers as a whole
RegisterOps == {"computeIntoTarget", "swapRegisters", "advanceCycle"}

\* the log after a call of op: a register operation is appended with the
\* registers it was called on (the oldest entry dropped beyond MaxLog), any
\* other operation empties the log
LoggedCall(op) ==
    IF op \in RegisterOps
    THEN LET entry == [op |-> op, system |-> systemGrid, target |-> targetGrid]
             log == Append(opLog, entry)
         IN IF Len(log) > MaxLog THEN Tail(log) ELSE log
    ELSE <<>>

RevInit ==
    /\ systemGrid = createGrid(0)
    /\ targetGrid = createGrid(0)
    /\ lastOp = "none"
    /\ advanceOk = "none"
    /\ opCount = 0
    /\ computeRun = NoRun
    /\ opLog = <<>>

RevIdle ==
    /\ systemGrid = createGrid(0)
    /\ targetGrid = createGrid(0)
    /\ lastOp = "none"
    /\ advanceOk = "none"
    /\ opCount = MaxOps
    /\ computeRun = NoRun
    /\ opLog = <<>>

\* bookkeeping shared by the operations: which one ran, and how many so far
Called(op) ==
    /\ opCount < MaxOps
    /\ opCount' = opCount + 1
    /\ lastOp' = op
    /\ computeRun' = IF op = "computeIntoTarget" THEN ExtendedRun ELSE NoRun
    /\ opLog' = LoggedCall(op)

toggleSystemCell(x, y) ==
    /\ Called("toggleSystemCell")
    /\ systemGrid' = [rowIndex \in DOMAIN systemGrid |->
                        [colIndex \in DOMAIN systemGrid[rowIndex] |->
                            IF rowIndex = y /\ colIndex = x
                            THEN 1 - systemGrid[rowIndex][colIndex]
                            ELSE systemGrid[rowIndex][colIndex]]]
    /\ UNCHANGED <<targetGrid, advanceOk, golVars, searchVars, benchVars, lifeVars>>

setPattern(pattern) ==
    /\ Called("setPattern")
    /\ IF pattern = "Random" THEN systemGrid' \in RandomGrids
       ELSE IF pattern = "Clear" THEN systemGrid' = createGrid(0)
       ELSE systemGrid' = placePattern(PATTERNS[pattern])
    /\ targetGrid' = createGrid(0)
    /\ UNCHANGED <<advanceOk, golVars, searchVars, benchVars, lifeVars>>

clearAll ==
    /\ Called("clearAll")
    /\ systemGrid' = createGrid(0)
    /\ targetGrid' = createGrid(0)
    /\ UNCHANGED <<advanceOk, golVars, searchVars, benchVars, lifeVars>>

\* variant: the update replaces the target in place of being XORed into it
computeIntoTarget_overwrites ==
    /\ Called("computeIntoTarget")
    /\ targetGrid' = cloneGrid(computePreview)
    /\ UNCHANGED <<systemGrid, advanceOk, golVars, searchVars, benchVars, lifeVars>>

computeIntoTarget ==
    /\ Called("computeIntoTarget")
    /\ LET update == computePreview
       IN targetGrid' = [y \in DOMAIN targetGrid |-> [x \in DOMAIN targetGrid[y] |->
                            BitXor(targetGrid[y][x], update[y][x])]]
    /\ UNCHANGED <<systemGrid, advanceOk, golVars, searchVars, benchVars, lifeVars>>

\* variant: the target is read after the system has taken its value
swapRegisters_readsNewSystem ==
    /\ Called("swapRegisters")
    /\ systemGrid' = cloneGrid(targetGrid)
    /\ targetGrid' = cloneGrid(systemGrid')
    /\ UNCHANGED <<advanceOk, golVars, searchVars, benchVars, lifeVars>>

swapRegisters ==
    /\ Called("swapRegisters")
    /\ LET prevSystem == systemGrid
           newSystem == cloneGrid(targetGrid)
       IN /\ targetGrid' = cloneGrid(prevSystem)
          /\ systemGrid' = newSystem
    /\ UNCHANGED <<advanceOk, golVars, searchVars, benchVars, lifeVars>>

\* the computed layer written to both registers: the old system is lost
advanceCycle_noSwap ==
    /\ Called("advanceCycle")
    /\ IF ~isTargetClean
       THEN /\ advanceOk' = FALSE
            /\ UNCHANGED <<systemGrid, targetGrid>>
       ELSE LET update == computePreview
                newTarget == [y \in DOMAIN targetGrid |-> [x \in DOMAIN targetGrid[y] |->
                                BitXor(targetGrid[y][x], update[y][x])]]
            IN /\ systemGrid' = cloneGrid(newTarget)
               /\ targetGrid' = newTarget
               /\ advanceOk' = TRUE
    /\ UNCHANGED <<golVars, searchVars, benchVars, lifeVars>>

\* variant: the clean-target guard is missing
advanceCycle_unguarded ==
    /\ Called("advanceCycle")
    /\ LET update == computePreview
           newTarget == [y \in DOMAIN targetGrid |-> [x \in DOMAIN targetGrid[y] |->
                           BitXor(targetGrid[y][x], update[y][x])]]
           newSystem == cloneGrid(newTarget)
           oldSystem == cloneGrid(systemGrid)
       IN /\ systemGrid' = newSystem
          /\ targetGrid' = oldSystem
          /\ advanceOk' = TRUE
    /\ UNCHANGED <<golVars, searchVars, benchVars, lifeVars>>

advanceCycle ==
    /\ Called("advanceCycle")
    /\ IF ~isTargetClean
       THEN /\ advanceOk' = FALSE
            /\ UNCHANGED <<systemGrid, targetGrid>>
       ELSE LET update == computePreview
                newTarget == [y \in DOMAIN targetGrid |-> [x \in DOMAIN targetGrid[y] |->
                                BitXor(targetGrid[y][x], update[y][x])]]
                newSystem == cloneGrid(newTarget)
                oldSystem == cloneGrid(systemGrid)
            IN /\ systemGrid' = newSystem
               /\ targetGrid' = oldSystem
               /\ advanceOk' = TRUE
    /\ UNCHANGED <<golVars, searchVars, benchVars, lifeVars>>

resetTarget ==
    /\ Called("resetTarget")
    /\ targetGrid' = createGrid(0)
    /\ UNCHANGED <<systemGrid, advanceOk, golVars, searchVars, benchVars, lifeVars>>

ToggleCell == \E x \in 0..MaxToggleCoord, y \in 0..MaxToggleCoord : toggleSystemCell(x, y)
LoadPattern == \E pattern \in PatternNames : setPattern(pattern)


----------------------------------------------------------------------------
(* simulation.ts: the quantum step.                                        *)
(* A complex number is a record [re, im] of integers.  Pauli coefficients  *)
(* are held in units of 1/COEFF_UNITS, amplitudes of a grid in units of 1. *)
(* A normalised state is held as the vector and the square of the          *)
(* magnitude it is to be divided by, so that no square root is taken of    *)
(* anything but 0 and 1.                                                   *)

Cx(re, im) == [re |-> re, im |-> im]

cadd(a, b) == Cx(a.re + b.re, a.im + b.im)
cmul(a, b) == Cx(a.re * b.re - a.im * b.im, a.re * b.im + a.im * b.re)

applyMatrix(mat, q) ==
    LET a == q[1]
        b == q[2]
    IN << cadd(cmul(mat[1][1], a), cmul(mat[1][2], b)),
          cadd(cmul(mat[2][1], a), cmul(mat[2][2], b)) >>

KET0 == << Cx(1, 0), Cx(0, 0) >>
KET1 == << Cx(0, 0), Cx(1, 0) >>

\* |alpha|^2 + |beta|^2
MagSq(q) == q[1].re * q[1].re + q[1].im * q[1].im + q[2].re * q[2].re + q[2].im * q[2].im

\* The vector q / sqrt(magSq).  On multiples of 1/COEFF_UNITS the test
\* magSq < 1e-12 is magSq = 0.
normalizeQubit(q) ==
    IF MagSq(q) = 0 THEN [vec |-> KET0, magSq |-> 1]
    ELSE [vec |-> q, magSq |-> MagSq(q)]

PauliI == << <<Cx(1,0), Cx(0,0)>>, <<Cx(0,0), Cx(1,0)>> >>
PauliX == << <<Cx(0,0), Cx(1,0)>>, <<Cx(1,0), Cx(0,0)>> >>
PauliY == << <<Cx(0,0), Cx(0,-1)>>, <<Cx(0,1), Cx(0,0)>> >>
PauliZ == << <<Cx(1,0), Cx(0,0)>>, <<Cx(0,0), Cx(-1,0)>> >>

scaleMatrix(mat, sc) == [i \in 1..2 |-> [j \in 1..2 |-> cmul(mat[i][j], sc)]]
addMatrices(mat1, mat2) == [i \in 1..2 |-> [j \in 1..2 |-> cadd(mat1[i][j], mat2[i][j])]]

constructMatrix(coeffs) ==
    LET m1 == scaleMatrix(PauliI, coeffs.cI)
        m2 == addMatrices(m1, scaleMatrix(PauliX, coeffs.cX))
        m3 == addMatrices(m2, scaleMatrix(PauliY, coeffs.cY))
    IN addMatrices(m3, scaleMatrix(PauliZ, coeffs.cZ))

\* prob1 >= 0.5 on a state of the grid
getClassicalState(q) ==
    LET prob1 == q[2].re * q[2].re + q[2].im * q[2].im
    IN IF 2 * prob1 >= 1 THEN 1 ELSE 0

\* gamma is a rational [num, den]; 1.0 is GammaOne
GammaOne == [num |-> 1, den |-> 1]

\* a sum over the neighbours inside the grid only, without wrapping
sumNeighborState_noWrap(currentGrid, y, x) ==
    LET inside(k) == /\ y + NeighborOffsets[k][1] \in DOMAIN currentGrid
                     /\ x + NeighborOffsets[k][2] \in DOMAIN currentGrid[y]
        nb(k) == IF inside(k)
                 THEN currentGrid[y + NeighborOffsets[k][1]][x + NeighborOffsets[k][2]]
                 ELSE << Cx(0, 0), Cx(0, 0) >>
    IN << Cx(SumSeq([k \in 1..Len(NeighborOffsets) |-> nb(k)[1].re]),
             SumSeq([k \in 1..Len(NeighborOffsets) |-> nb(k)[1].im])),
          Cx(SumSeq([k \in 1..Len(NeighborOffsets) |-> nb(k)[2].re]),
             SumSeq([k \in 1..Len(NeighborOffsets) |-> nb(k)[2].im])) >>

sumNeighborState(currentGrid, y, x) ==
    LET gridHeight == Height(currentGrid)
        gridWidth == Width(currentGrid)
        nb(k) == currentGrid[(y + NeighborOffsets[k][1] + gridHeight) % gridHeight]
                            [(x + NeighborOffsets[k][2] + gridWidth) % gridWidth]
    IN << Cx(SumSeq([k \in 1..Len(NeighborOffsets) |-> nb(k)[1].re]),
             SumSeq([k \in 1..Len(NeighborOffsets) |-> nb(k)[1].im])),
          Cx(SumSeq([k \in 1..Len(NeighborOffsets) |-> nb(k)[2].re]),
             SumSeq([k \in 1..Len(NeighborOffsets) |-> nb(k)[2].im])) >>

\* Stage A for one cell: W_self q + W_neighbor (sum of neighbours), normalised
coherentCell(currentGrid, W_self, W_neighbor, y, x) ==
    LET selfTerm == applyMatrix(W_self, currentGrid[y][x])
        neighborTerm == applyMatrix(W_neighbor, sumNeighborState(currentGrid, y, x))
        nextStateVector == << cadd(selfTerm[1], neighborTerm[1]),
                              cadd(selfTerm[2], neighborTerm[2]) >>
    IN normalizeQubit(nextStateVector)

\* { re: Math.sqrt(prob), im: 0 }: the roots of 0 and 1 are taken; the root
\* of any other probability is the record [sqrtOf |-> prob] of its radicand
SqrtProb(prob) ==
    IF prob.num = 0 THEN Cx(0, 0)
    ELSE IF prob.num = prob.den THEN Cx(1, 0)
    ELSE [sqrtOf |-> prob]

\* Stage B for one cell.  pQuantum = |beta|^2 / magSq; when it is exactly
\* 1/2 the floating-point value lies on either side of 0.5 (beta/mag is
\* rounded: (-10,10) gives 0.4999999999999999, (-3,3) 0.5000000000000001).
\* Stage B with pFinal = pQuantum, whatever gamma is
decohereCell_ignoresGamma(qubit, gamma) ==
    LET pNum == qubit.vec[2].re * qubit.vec[2].re + qubit.vec[2].im * qubit.vec[2].im
        pDen == qubit.magSq
    IN << SqrtProb([num |-> pDen - pNum, den |-> pDen]),
          SqrtProb([num |-> pNum, den |-> pDen]) >>

decohereCell(qubit, gamma) ==
    LET pNum == qubit.vec[2].re * qubit.vec[2].re + qubit.vec[2].im * qubit.vec[2].im
        pDen == qubit.magSq
        classicalAttractor == IF 2 * pNum > pDen THEN 1
                              ELSE IF 2 * pNum = pDen /\ tieRoundsUp THEN 1
                              ELSE 0
        \* (1 - gamma) * pQuantum + gamma * classicalAttractor
        fNum == (gamma.den - gamma.num) * pNum + gamma.num * classicalAttractor * pDen
        fDen == gamma.den * pDen
        prob == IF fNum < 0 THEN [num |-> 0, den |-> 1]
                ELSE IF fNum > fDen THEN [num |-> 1, den |-> 1]
                ELSE [num |-> fNum, den |-> fDen]
    IN << SqrtProb([num |-> prob.den - prob.num, den |-> prob.den]),
          SqrtProb(prob) >>

performQuantumStep(currentGrid, params) ==
    LET W_self == constructMatrix(params.w_self)
        W_neighbor == constructMatrix(params.w_neighbor)
    IN [y \in 0..(Height(currentGrid)-1) |->
          [x \in 0..(Width(currentGrid)-1) |->
              decohereCell(coherentCell(currentGrid, W_self, W_neighbor, y, x),
                           params.gamma)]]


----------------------------------------------------------------------------
(* hooks/useRuleSearch.ts: ground truth and fitness.                       *)
(* A fitness is a rational [num, den] with den > 0.                        *)

\* seededRandomForGroundTruth() > 0.6 for the successive draws of
\* createSeededRandom(1337): Math.sin(s++) * 10000, fractional part
SeededAlive ==
    << 1, 1, 1, 1, 0, 0, 1, 1, 1, 1, 1, 1, 0, 1, 0, 1, 0, 0, 0, 0, 1, 1, 1, 1, 1,
       0, 0, 0, 0, 1, 1, 0, 1, 1, 1, 1, 0, 0, 0, 0, 0, 1, 0, 0, 0, 0, 0, 1, 1 >>

\* the live cells of the new grid counted in place of the differing ones
Flips_countsAlive(grid, prevGrid) ==
    SumSeq([k \in 1..(FITNESS_GRID_SIZE * FITNESS_GRID_SIZE) |->
              grid[(k-1) \div FITNESS_GRID_SIZE][(k-1) % FITNESS_GRID_SIZE]])

\* number of cells whose values differ
Flips(grid, prevGrid) ==
    SumSeq([k \in 1..(FITNESS_GRID_SIZE * FITNESS_GRID_SIZE) |->
              LET y == (k-1) \div FITNESS_GRID_SIZE
                  x == (k-1) % FITNESS_GRID_SIZE
              IN IF grid[y][x] # prevGrid[y][x] THEN 1 ELSE 0])

RECURSIVE groundTruthLoop(_, _, _)
groundTruthLoop(i, grid, trajectory) ==
    IF i >= FITNESS_SIM_STEPS THEN trajectory
    ELSE LET next == performGOLStep(grid)
         IN groundTruthLoop(i + 1, next,
                Append(trajectory, [grid |-> cloneGrid(next),
                                    population |-> Population(next),
                                    flipsSincePrevStep |-> Flips(next, grid)]))

precomputeGroundTruth ==
    LET grid == [y \in 0..(FITNESS_GRID_SIZE-1) |-> [x \in 0..(FITNESS_GRID_SIZE-1) |->
                    SeededAlive[y * FITNESS_GRID_SIZE + x + 1]]]
    IN groundTruthLoop(0, grid,
          << [grid |-> cloneGrid(grid), population |-> Population(grid),
              flipsSincePrevStep |-> 0] >>)

createQubitGridFromClassical(classical) ==
    [y \in DOMAIN classical |-> [x \in DOMAIN classical[y] |->
        IF classical[y][x] = 1 THEN KET1 ELSE KET0]]

Abs(n) == IF n < 0 THEN -n ELSE n

\* one pass of the step loop of calculateFitness over the accumulators
fitnessStep(params, trajectory, step, acc) ==
    LET quantumGrid == performQuantumStep(acc.quantumGrid, [params EXCEPT !.gamma = GammaOne])
        candidateClassicalGrid ==
            [y \in DOMAIN quantumGrid |-> [x \in DOMAIN quantumGrid[y] |->
                getClassicalState(quantumGrid[y][x])]]
        groundTruthStep == trajectory[step + 2]
        cells == FITNESS_GRID_SIZE * FITNESS_GRID_SIZE
        cy(k) == (k-1) \div FITNESS_GRID_SIZE
        cx(k) == (k-1) % FITNESS_GRID_SIZE
        mismatch == SumSeq([k \in 1..cells |->
                        Abs(candidateClassicalGrid[cy(k)][cx(k)] - groundTruthStep.grid[cy(k)][cx(k)])])
        candidatePopulation == SumSeq([k \in 1..cells |-> candidateClassicalGrid[cy(k)][cx(k)]])
        candidateFlips == SumSeq([k \in 1..cells |->
                        IF candidateClassicalGrid[cy(k)][cx(k)] # acc.prevClassicalGrid[cy(k)][cx(k)]
                        THEN 1 ELSE 0])
    IN [ quantumGrid |-> quantumGrid,
         prevClassicalGrid |-> candidateClassicalGrid,
         mismatchError |-> acc.mismatchError + mismatch,
         populationError |-> acc.populationError
                              + Abs(candidatePopulation - groundTruthStep.population),
         dynamismError |-> acc.dynamismError
                              + Abs(candidateFlips - groundTruthStep.flipsSincePrevStep),
         candidateDynamismHistory |-> Append(acc.candidateDynamismHistory, candidateFlips) ]

RECURSIVE fitnessLoop(_, _, _, _)
fitnessLoop(params, trajectory, step, acc) ==
    IF step >= FITNESS_SIM_STEPS THEN acc
    ELSE fitnessLoop(params, trajectory, step + 1, fitnessStep(params, trajectory, step, acc))

\* the last STAGNATION_CHECK_LENGTH entries are all 0
\* stagnant as soon as one of the last entries is 0
isStagnant_anyZero(candidateDynamismHistory) ==
    /\ Len(candidateDynamismHistory) >= STAGNATION_CHECK_LENGTH
    /\ \E k \in (Len(candidateDynamismHistory) - STAGNATION_CHECK_LENGTH + 1)
                ..Len(candidateDynamismHistory) : candidateDynamismHistory[k] = 0

isStagnant(candidateDynamismHistory) ==
    /\ Len(candidateDynamismHistory) >= STAGNATION_CHECK_LENGTH
    /\ \A k \in (Len(candidateDynamismHistory) - STAGNATION_CHECK_LENGTH + 1)
                ..Len(candidateDynamismHistory) : candidateDynamismHistory[k] = 0

\* 1 / (1 + totalError), times the bonus unless stagnant; totalError in halves
\* the bonus multiplied in twice
fitnessOf_bonusTwice(mismatchError, populationError, dynamismError, stagnant) ==
    LET totalErrorHalves == 2 * mismatchError
                            + populationError * POPULATION_PENALTY_HALVES
                            + dynamismError * DYNAMISM_ERROR_HALVES
    IN IF stagnant THEN [num |-> 2, den |-> 2 + totalErrorHalves]
       ELSE [num |-> 2 * DYNAMISM_BONUS_HALVES, den |-> 2 + totalErrorHalves]

fitnessOf(mismatchError, populationError, dynamismError, stagnant) ==
    LET totalErrorHalves == 2 * mismatchError
                            + populationError * POPULATION_PENALTY_HALVES
                            + dynamismError * DYNAMISM_ERROR_HALVES
    IN IF stagnant THEN [num |-> 2, den |-> 2 + totalErrorHalves]
       ELSE [num |-> DYNAMISM_BONUS_HALVES, den |-> 2 + totalErrorHalves]

calculateFitnessOn(params, trajectory) ==
    IF Len(trajectory) = 0 THEN [num |-> 0, den |-> 1]
    ELSE LET initialGrid == trajectory[1].grid
             acc == fitnessLoop(params, trajectory, 0,
                       [ quantumGrid |-> createQubitGridFromClassical(initialGrid),
                         prevClassicalGrid |-> initialGrid,
                         mismatchError |-> 0, populationError |-> 0, dynamismError |-> 0,
                         candidateDynamismHistory |-> <<>> ])
         IN fitnessOf(acc.mismatchError, acc.populationError, acc.dynamismError,
                      isStagnant(acc.candidateDynamismHistory))

\* comparisons of fitness values
FitGreater(a, b) == a.num * b.den > b.num * a.den
FitEqual(a, b) == a.num * b.den = b.num * a.den
\* a > b + 1e-9
FitExceedsByTolerance(a, b) ==
    LET diff == a.num * b.den - b.num * a.den
    IN diff > 0 /\ (a.den * b.den) \div diff < TOLERANCE_INVERSE
\* a > 1.49
ExceedsSuccessThreshold(a) == 100 * a.num > SUCCESS_HUNDREDTHS * a.den


----------------------------------------------------------------------------
(* hooks/useRuleSearch.ts: the genetic operators.                          *)
(* Math.random() returns k/RandomDen for a k in RandomValues; a            *)
(* coefficient part is an integer in units of 1/COEFF_UNITS.               *)

RandomValues == 0..(RandomDen - 1)
COEFF_UNITS == 10 * RandomDen

Matrices == {"w_self", "w_neighbor"}
CoeffNames == {"cI", "cX", "cY", "cZ"}
PartNames == {"re", "im"}
\* the 8 complex coefficients and their 16 real parts
CoeffSlots == Matrices \X CoeffNames
Parts == Matrices \X CoeffNames \X PartNames

\* (Math.random() - 0.5) * 0.2, for Math.random() = k/RandomDen
randomCoeff(k) == 2 * k - RandomDen

\* draw gives the value of Math.random() consumed for each part
createRandomParams(draw) ==
    LET c(m, n) == Cx(randomCoeff(draw[<<m, n, "re">>]), randomCoeff(draw[<<m, n, "im">>]))
    IN [ gamma |-> GammaOne,
         w_self |-> [ cI |-> Cx(COEFF_UNITS + randomCoeff(draw[<<"w_self", "cI", "re">>]),
                                randomCoeff(draw[<<"w_self", "cI", "im">>])),
                      cX |-> c("w_self", "cX"),
                      cY |-> c("w_self", "cY"),
                      cZ |-> c("w_self", "cZ") ],
         w_neighbor |-> [ cI |-> c("w_neighbor", "cI"), cX |-> c("w_neighbor", "cX"),
                          cY |-> c("w_neighbor", "cY"), cZ |-> c("w_neighbor", "cZ") ] ]

\* The draws explored for createRandomParams: every part draws the middle
\* value, but for the parts of one of these sets, which draw 0.
InitLowParts ==
    { {}, {<<"w_neighbor", "cX", "re">>}, {<<"w_neighbor", "cY", "im">>} }
InitDraws ==
    {[pt \in Parts |-> IF pt \in low THEN 0 ELSE RandomDen \div 2] : low \in InitLowParts}
InitPool == {createRandomParams(draw) : draw \in InitDraws}

\* variant: the array is one individual short
InitPopulations_oneShort == [1..(POPULATION_SIZE - 1) -> InitPool]

\* Array.from({ length: POPULATION_SIZE }, createRandomParams)
InitPopulations == [1..POPULATION_SIZE -> InitPool]

\* mutateComplex on one part: mutated when Math.random() < MUTATION_RATE, by
\* (Math.random() - 0.5) * 2 * MUTATION_AMOUNT
mutatePart(value, rateDraw, amountDraw) ==
    IF 10 * rateDraw < MUTATION_RATE_TENTHS * RandomDen
    THEN value + (2 * amountDraw - RandomDen) * MUTATION_AMOUNT_TENTHS
    ELSE value

\* rate and amount give the two draws consumed for each part
mutateCoefficients(coeffs, m, rate, amount) ==
    [n \in CoeffNames |->
        Cx(mutatePart(coeffs[n].re, rate[<<m, n, "re">>], amount[<<m, n, "re">>]),
           mutatePart(coeffs[n].im, rate[<<m, n, "im">>], amount[<<m, n, "im">>]))]

\* a mutate that sets gamma to 0.5
mutate_gammaHalf(params, rate, amount) ==
    [ gamma |-> [num |-> 1, den |-> 2],
      w_self |-> mutateCoefficients(params.w_self, "w_self", rate, amount),
      w_neighbor |-> mutateCoefficients(params.w_neighbor, "w_neighbor", rate, amount) ]

mutate(params, rate, amount) ==
    [ gamma |-> GammaOne,
      w_self |-> mutateCoefficients(params.w_self, "w_self", rate, amount),
      w_neighbor |-> mutateCoefficients(params.w_neighbor, "w_neighbor", rate, amount) ]

\* each coefficient from p1 when Math.random() < 0.5, else from p2
crossoverCoefficients(p1, p2, m, pick) ==
    [n \in CoeffNames |-> IF 2 * pick[<<m, n>>] < RandomDen THEN p1[n] ELSE p2[n]]

crossover(parent1, parent2, pick) ==
    [ gamma |-> GammaOne,
      w_self |-> crossoverCoefficients(parent1.w_self, parent2.w_self, "w_self", pick),
      w_neighbor |-> crossoverCoefficients(parent1.w_neighbor, parent2.w_neighbor,
                                           "w_neighbor", pick) ]

\* the parts whose rate draw is explored on both sides of MUTATION_RATE;
\* the other parts draw above it
MutableParts == { <<"w_neighbor", "cZ", "re">>, <<"w_neighbor", "cY", "im">> }

\* the draws of one mutate call: at most MaxMutations parts draw below the rate
MutationRates ==
    {[pt \in Parts |-> IF pt \in hit THEN 0 ELSE RandomDen - 1] :
        hit \in {h \in SUBSET MutableParts : Cardinality(h) <= MaxMutations}}
MutationAmounts(rate) ==
    {[pt \in Parts |-> IF rate[pt] = 0 THEN a[pt] ELSE 0] :
        a \in [{pt \in Parts : rate[pt] = 0} -> RandomValues]}

MutateSet(child) ==
    UNION {{mutate(child, rate, amount) : amount \in MutationAmounts(rate)} :
              rate \in MutationRates}

\* stable insertion of e into a sequence sorted by descending fitness:
\* Array.prototype.sort with (a, b) => b.fitness - a.fitness
RECURSIVE InsertDesc(_, _)
InsertDesc(sorted, e) ==
    IF sorted = <<>> THEN <<e>>
    ELSE IF FitGreater(e.fitness, sorted[Len(sorted)].fitness)
         THEN Append(InsertDesc(SubSeq(sorted, 1, Len(sorted) - 1), e), sorted[Len(sorted)])
         ELSE Append(sorted, e)

RECURSIVE SortDesc(_, _)
SortDesc(scores, k) ==
    IF k = 0 THEN <<>> ELSE InsertDesc(SortDesc(scores, k - 1), scores[k])

calculateFitness(params) == calculateFitnessOn(params, groundTruthTrajectoryRef)

\* populationRef.current.map(p => ({params, fitness})) and the sort
fitnessScoresOf(population) ==
    SortDesc([k \in 1..Len(population) |->
                [params |-> population[k], fitness |-> calculateFitness(population[k])]],
             Len(population))

\* the tournament of selectParent, for its three draws
selectParent(fitnessScores, d1, d2, d3) ==
    LET contestant1 == fitnessScores[(d1 * Len(fitnessScores)) \div RandomDen + 1]
        contestant2 == fitnessScores[(d2 * Len(fitnessScores)) \div RandomDen + 1]
        firstWins == FitGreater(contestant1.fitness, contestant2.fitness)
        winner == IF firstWins THEN contestant1 ELSE contestant2
        loser == IF firstWins THEN contestant2 ELSE contestant1
    IN IF 10 * d3 < SELECTION_NOISE_TENTHS * RandomDen THEN loser.params ELSE winner.params

ParentSet(fitnessScores) ==
    {selectParent(fitnessScores, d1, d2, d3) : d1 \in RandomValues, d2 \in RandomValues,
                                                d3 \in RandomValues}

\* the draws that decide a coefficient of crossover: one below 0.5, one not
PickDraws == [CoeffSlots -> {0, RandomDen - 1}]

\* one pass of the while loop: the children it can push
ChildSet(fitnessScores) ==
    LET parents == ParentSet(fitnessScores)
        crossed(parent1, parent2) ==
            IF \E dc \in RandomValues : 10 * dc < CROSSOVER_RATE_TENTHS * RandomDen
            THEN {crossover(parent1, parent2, pick) : pick \in PickDraws}
            ELSE {}
        \* JSON.parse(JSON.stringify(parent1))
        cloned(parent1) ==
            IF \E dc \in RandomValues : ~(10 * dc < CROSSOVER_RATE_TENTHS * RandomDen)
            THEN {parent1}
            ELSE {}
        unmutated ==
            UNION {UNION {crossed(parent1, parent2) \cup cloned(parent1)
                            : parent2 \in parents} : parent1 \in parents}
    IN UNION {MutateSet(child) : child \in unmutated}

\* variant: the slice starts after the top individual
Elites_fromSecond(fitnessScores) == [i \in 1..ELITISM_COUNT |-> fitnessScores[i + 1].params]

\* the first ELITISM_COUNT of the sorted scores
Elites(fitnessScores) == [i \in 1..ELITISM_COUNT |-> fitnessScores[i].params]


----------------------------------------------------------------------------
(* hooks/useRuleSearch.ts: the hook's callbacks and effects *)

NoTimers == <<>>

\* timeoutRef.current when it holds no timer id (null; falsy like 0)
NoTimer == 0

\* bestParams is null, or holds one parameter set
NoParams == <<>>

\* clearTimeout(id)
ClearTimer(timers, id) == [i \in (DOMAIN timers) \ {id} |-> timers[i]]

\* window.setTimeout returns an id no live timer has and timeoutRef does not hold
FreshTimerId(timers, ref) ==
    CHOOSE id \in 1..(Cardinality(DOMAIN timers) + 2) :
        /\ id \notin DOMAIN timers
        /\ id # ref
        /\ \A j \in 1..(id - 1) : j \in DOMAIN timers \/ j = ref

\* variant: the cleanup leaves the timer of timeoutRef running
effectCleanup_keepsTimer(timers, ref) == timers

\* if (timeoutRef.current) clearTimeout(timeoutRef.current), in the effect's
\* cleanup and in its else branch
effectCleanup(timers, ref) == IF ref # NoTimer THEN ClearTimer(timers, ref) ELSE timers

\* variant: the effect depends on [isSearching] alone, so a commit that
\* leaves isSearching as it was runs neither the cleanup nor the effect
searchEffect_onlyOnToggle(timers, ref, searching, closure) ==
    IF searching = isSearching
    THEN [timers |-> timers, ref |-> ref]
    ELSE LET cleaned == effectCleanup(timers, ref)
         IN IF searching
            THEN LET id == FreshTimerId(cleaned, ref)
                 IN [timers |-> (id :> closure) @@ cleaned, ref |-> id]
            ELSE [timers |-> effectCleanup(cleaned, ref), ref |-> ref]

\* The commit that follows a callback: the search effect depends on
\* [isSearching, runGeneration], and runGeneration on [bestParams,
\* searchProgress]; every callback below sets isSearching or a new
\* searchProgress object, so the cleanup and the effect run after each.
\* closure: the bestParams and searchProgress the new runGeneration captures.
searchEffect(timers, ref, searching, closure) ==
    LET cleaned == effectCleanup(timers, ref)
    IN IF searching
       THEN LET id == FreshTimerId(cleaned, ref)
            IN [timers |-> (id :> closure) @@ cleaned, ref |-> id]
       ELSE [timers |-> effectCleanup(cleaned, ref), ref |-> ref]

ZeroFitness == [num |-> 0, den |-> 1]

\* variant: initializeSearch without setBestParams(null)
initializeSearch_keepsBestParams(population) ==
    /\ generationRef' = 0
    /\ groundTruthTrajectoryRef' = precomputeGroundTruth
    /\ populationRef' = population
    /\ searchProgress' = [generation |-> 0, bestFitness |-> ZeroFitness]
    /\ bestParams' = bestParams
    /\ maxTopFitness' = ZeroFitness

\* the state initializeSearch leaves, for the population drawn
initializeSearch(population) ==
    /\ generationRef' = 0
    /\ groundTruthTrajectoryRef' = precomputeGroundTruth
    /\ populationRef' = population
    /\ searchProgress' = [generation |-> 0, bestFitness |-> ZeroFitness]
    /\ bestParams' = NoParams
    /\ maxTopFitness' = ZeroFitness

Committed(timers, ref, searching) ==
    LET after == searchEffect(timers, ref, searching,
                              [bestParams |-> bestParams', searchProgress |-> searchProgress'])
    IN /\ pendingTimers' = after.timers
       /\ timeoutRef' = after.ref

\* variant: a stopped search is initialised whatever its generation counter
toggleSearch_alwaysInitializes ==
    /\ lastEvent' = "toggleSearch"
    /\ IF ~isSearching
       THEN \E population \in InitPopulations : initializeSearch(population)
       ELSE UNCHANGED <<generationRef, groundTruthTrajectoryRef, populationRef,
                        searchProgress, bestParams, maxTopFitness>>
    /\ isSearching' = ~isSearching
    /\ Committed(pendingTimers, timeoutRef, isSearching')
    /\ UNCHANGED <<lastTopFitness, lastFitnessScores, tieRoundsUp, golVars, revVars, benchVars, lifeVars>>

toggleSearch ==
    /\ lastEvent' = "toggleSearch"
    /\ IF ~isSearching /\ generationRef = 0
       THEN \E population \in InitPopulations : initializeSearch(population)
       ELSE UNCHANGED <<generationRef, groundTruthTrajectoryRef, populationRef,
                        searchProgress, bestParams, maxTopFitness>>
    /\ isSearching' = ~isSearching
    /\ Committed(pendingTimers, timeoutRef, isSearching')
    /\ UNCHANGED <<lastTopFitness, lastFitnessScores, tieRoundsUp, golVars, revVars, benchVars, lifeVars>>

resetSearch ==
    /\ lastEvent' = "resetSearch"
    /\ isSearching' = FALSE
    /\ \E population \in InitPopulations : initializeSearch(population)
    /\ Committed(pendingTimers, timeoutRef, isSearching')
    /\ UNCHANGED <<lastTopFitness, lastFitnessScores, tieRoundsUp, golVars, revVars, benchVars, lifeVars>>

\* variant: the value standing for "no best parameters yet" is 2
currentBestFitness_startsAtTwo(closure) ==
    IF closure.bestParams # NoParams THEN closure.searchProgress.bestFitness
    ELSE [num |-> 2, den |-> 1]

\* const currentBestFitness = bestParams ? searchProgress.bestFitness : -1
currentBestFitness(closure) ==
    IF closure.bestParams # NoParams THEN closure.searchProgress.bestFitness
    ELSE [num |-> -1, den |-> 1]

\* bestIndividual.fitness > currentBestFitness + 1e-9
improves(bestIndividual, closure) ==
    FitExceedsByTolerance(bestIndividual.fitness, currentBestFitness(closure))

\* variant: the else branch replaces the progress instead of updating prev
reportedProgress_dropsBest(bestIndividual, closure, prev, generation) ==
    IF improves(bestIndividual, closure)
    THEN [generation |-> generation, bestFitness |-> bestIndividual.fitness]
    ELSE [generation |-> generation, bestFitness |-> ZeroFitness]

\* variant: the else branch keeps prev as it is
reportedProgress_skipsGeneration(bestIndividual, closure, prev, generation) ==
    IF improves(bestIndividual, closure)
    THEN [generation |-> generation, bestFitness |-> bestIndividual.fitness]
    ELSE prev

\* the searchProgress the generation reports; prev is the state at the update
reportedProgress(bestIndividual, closure, prev, generation) ==
    IF improves(bestIndividual, closure)
    THEN [generation |-> generation, bestFitness |-> bestIndividual.fitness]
    ELSE [prev EXCEPT !.generation = generation]

\* variant: bestParams is set only while it is null
reportedBestParams_keepsFirst(bestIndividual, closure, prev) ==
    IF improves(bestIndividual, closure) /\ prev = NoParams
    THEN <<bestIndividual.params>> ELSE prev

reportedBestParams(bestIndividual, closure, prev) ==
    IF improves(bestIndividual, closure) THEN <<bestIndividual.params>> ELSE prev

\* variant: the threshold is 0.1
converged_aboveTenth(bestIndividual) ==
    10 * bestIndividual.fitness.num > bestIndividual.fitness.den

\* variant: the threshold is 2
converged_above2(bestIndividual) == bestIndividual.fitness.num > 2 * bestIndividual.fitness.den

\* bestIndividual.fitness > 1.49
converged(bestIndividual) == ExceedsSuccessThreshold(bestIndividual.fitness)

FitMax(a, b) == IF FitGreater(b, a) THEN b ELSE a

\* the timer id fires: runGeneration runs with the values it captured
runGeneration(id) ==
    /\ id \in DOMAIN pendingTimers
    /\ \/ generationRef < MaxGen
       \/ generationRef < MaxGen + MaxResumed /\ ExceedsSuccessThreshold(lastTopFitness)
    /\ lastEvent' = "runGeneration"
    /\ \E fitnessScores \in {fitnessScoresOf(populationRef)} :
       LET closure == pendingTimers[id]
           fired == ClearTimer(pendingTimers, id)
           bestIndividual == fitnessScores[1]
       IN /\ generationRef' = generationRef + 1
          /\ bestParams' = reportedBestParams(bestIndividual, closure, bestParams)
          /\ searchProgress' = reportedProgress(bestIndividual, closure, searchProgress,
                                                generationRef')
          /\ lastTopFitness' = bestIndividual.fitness
          /\ lastFitnessScores' = [k \in DOMAIN fitnessScores |-> fitnessScores[k].fitness]
          /\ maxTopFitness' = FitMax(maxTopFitness, bestIndividual.fitness)
          /\ IF converged(bestIndividual)
             THEN /\ isSearching' = FALSE
                  /\ populationRef' = populationRef
                  /\ Committed(fired, timeoutRef, isSearching')
             ELSE /\ isSearching' = isSearching
                  /\ \E children \in [1..(POPULATION_SIZE - ELITISM_COUNT)
                                        -> ChildSet(fitnessScores)] :
                        populationRef' = Elites(fitnessScores) \o children
                  \* timeoutRef.current = window.setTimeout(runGeneration, 20)
                  /\ LET tail == FreshTimerId(fired, timeoutRef)
                     IN Committed((tail :> closure) @@ fired, tail, isSearching')
    /\ UNCHANGED <<groundTruthTrajectoryRef, tieRoundsUp, golVars, revVars, benchVars, lifeVars>>

TimerFires == \E id \in DOMAIN pendingTimers : runGeneration(id)

\* the state once the component has mounted: both effects have run, the
\* second calling resetSearch
SearchInit ==
    /\ isSearching = FALSE
    /\ searchProgress = [generation |-> 0, bestFitness |-> ZeroFitness]
    /\ bestParams = NoParams
    /\ populationRef \in InitPopulations
    /\ generationRef = 0
    /\ timeoutRef = NoTimer
    /\ groundTruthTrajectoryRef = precomputeGroundTruth
    /\ pendingTimers = NoTimers
    /\ lastEvent = "mount"
    /\ lastTopFitness = ZeroFitness
    /\ lastFitnessScores = <<>>
    /\ maxTopFitness = ZeroFitness
    /\ tieRoundsUp \in BOOLEAN

SearchIdle ==
    /\ isSearching = FALSE
    /\ searchProgress = [generation |-> 0, bestFitness |-> ZeroFitness]
    /\ bestParams = NoParams
    /\ populationRef = <<>>
    /\ generationRef = 0
    /\ timeoutRef = NoTimer
    /\ groundTruthTrajectoryRef = <<>>
    /\ pendingTimers = NoTimers
    /\ lastEvent = "none"
    /\ lastTopFitness = ZeroFitness
    /\ lastFitnessScores = <<>>
    /\ maxTopFitness = ZeroFitness
    /\ tieRoundsUp = TRUE

\* the hook unused, either rounding of an exact 1/2
SearchUnused ==
    /\ isSearching = FALSE
    /\ searchProgress = [generation |-> 0, bestFitness |-> ZeroFitness]
    /\ bestParams = NoParams
    /\ populationRef = <<>>
    /\ generationRef = 0
    /\ timeoutRef = NoTimer
    /\ groundTruthTrajectoryRef = <<>>
    /\ pendingTimers = NoTimers
    /\ lastEvent = "none"
    /\ lastTopFitness = ZeroFitness
    /\ lastFitnessScores = <<>>
    /\ maxTopFitness = ZeroFitness
    /\ tieRoundsUp \in BOOLEAN

----------------------------------------------------------------------------
(* The bench: performQuantumStep called once on a chosen grid, and         *)
(* performGOLStep applied to the classical grid it thresholds to           *)

NoGrid == <<>>

\* the cells of the bench's grids, amplitudes in fifths: |0>, |1> and
\* (0.6, 0.8), a state Stage B leaves when gamma < 1
QKet0 == << Cx(5, 0), Cx(0, 0) >>
QKet1 == << Cx(0, 0), Cx(5, 0) >>
QMixed == << Cx(3, 0), Cx(4, 0) >>
QCells == {QKet0, QKet1, QMixed}

QDims == {d \in (1..MaxQCells) \X (1..MaxQCells) : d[1] * d[2] <= MaxQCells}
QInputs == UNION {[0..(d[1]-1) -> [0..(d[2]-1) -> QCells]] : d \in QDims}

\* variant: w_self is the Pauli X matrix
DEFAULT_PARAMETERS_selfX ==
    LET ZERO_C == Cx(0, 0)
        ONE_C == Cx(COEFF_UNITS, 0)
    IN [ gamma |-> GammaOne,
         w_self |-> [cI |-> ZERO_C, cX |-> ONE_C, cY |-> ZERO_C, cZ |-> ZERO_C],
         w_neighbor |-> [cI |-> ZERO_C, cX |-> ZERO_C, cY |-> ZERO_C, cZ |-> ZERO_C] ]

\* constants.ts DEFAULT_PARAMETERS, coefficients in units of 1/COEFF_UNITS
DEFAULT_PARAMETERS ==
    LET ZERO_C == Cx(0, 0)
        ONE_C == Cx(COEFF_UNITS, 0)
    IN [ gamma |-> GammaOne,
         w_self |-> [cI |-> ONE_C, cX |-> ZERO_C, cY |-> ZERO_C, cZ |-> ZERO_C],
         w_neighbor |-> [cI |-> ZERO_C, cX |-> ZERO_C, cY |-> ZERO_C, cZ |-> ZERO_C] ]

\* the slider values of gamma explored: 0, 0.5 and 1
QGammas == { [num |-> 0, den |-> 1], [num |-> 1, den |-> 2], GammaOne }

\* the coefficients explored: the defaults, the search's initial pool, and
\* parameters all of whose 16 parts are non-zero
QCoefficients ==
    {DEFAULT_PARAMETERS} \cup InitPool
        \cup {createRandomParams([pt \in Parts |-> 0])}
QParamSets == {[c EXCEPT !.gamma = g] : c \in QCoefficients, g \in QGammas}

\* getClassicalState on a cell whose amplitudes are in any unit
thresholdCell(q) ==
    IF 2 * (q[2].re * q[2].re + q[2].im * q[2].im) >= MagSq(q) THEN 1 ELSE 0
thresholdGrid(grid) ==
    [y \in DOMAIN grid |-> [x \in DOMAIN grid[y] |-> thresholdCell(grid[y][x])]]

QuantumStart ==
    /\ qInput \in QInputs
    /\ qParams \in QParamSets
    /\ qOutput = NoGrid
    /\ golInput = thresholdGrid(qInput)
    /\ golGrid = golInput
    /\ golSteps = MaxGolSteps - 1

QuantumIdle ==
    /\ qInput = NoGrid
    /\ qParams = DEFAULT_PARAMETERS
    /\ qOutput = NoGrid

QuantumStepCall ==
    /\ qInput # NoGrid
    /\ qOutput = NoGrid
    /\ qOutput' = performQuantumStep(qInput, qParams)
    /\ UNCHANGED <<qInput, qParams, fitVars, golVars, revVars, searchVars, lifeVars>>

----------------------------------------------------------------------------
(* The bench: calculateFitness called once *)

NotCalled == [called |-> FALSE]

\* The value of groundTruthTrajectoryRef.current that calculateFitness
\* reads: [] as the ref is created, the trajectory precomputeGroundTruth
\* assigns, and trajectories cut short (the malformed ones)
FitTrajectories ==
    {SubSeq(precomputeGroundTruth, 1, n) : n \in 0..Len(precomputeGroundTruth)}

\* The candidates evaluated: the defaults, the initial pool, its crossovers
\* and the mutations of those, each also with the gamma of the slider's
\* middle
FitCrossed ==
    {crossover(parent1, parent2, pick) : parent1 \in InitPool, parent2 \in InitPool,
                                          pick \in PickDraws}
FitCandidates ==
    LET searched == InitPool \cup FitCrossed \cup UNION {MutateSet(c) : c \in FitCrossed}
        gammaOne == {DEFAULT_PARAMETERS} \cup searched
    IN gammaOne \cup {[c EXCEPT !.gamma = [num |-> 1, den |-> 2]] : c \in gammaOne}

\* calculateFitness as a call that returns or throws.  With a trajectory
\* that is not empty and shorter than FITNESS_SIM_STEPS + 1 the loop reaches
\* a step whose groundTruthTrajectoryRef.current[step + 1] is undefined, and
\* reading groundTruthStep.grid throws a TypeError.
calculateFitnessOutcome(params, trajectory) ==
    IF Len(trajectory) = 0
    THEN [called |-> TRUE, threw |-> FALSE, value |-> [num |-> 0, den |-> 1],
          mismatchError |-> 0, populationError |-> 0, dynamismError |-> 0,
          candidateDynamismHistory |-> <<>>]
    ELSE IF \E step \in 0..(FITNESS_SIM_STEPS - 1) : step + 2 > Len(trajectory)
    THEN [called |-> TRUE, threw |-> TRUE]
    ELSE LET acc == fitnessLoop(params, trajectory, 0,
                       [ quantumGrid |-> createQubitGridFromClassical(trajectory[1].grid),
                         prevClassicalGrid |-> trajectory[1].grid,
                         mismatchError |-> 0, populationError |-> 0, dynamismError |-> 0,
                         candidateDynamismHistory |-> <<>> ])
         IN [called |-> TRUE, threw |-> FALSE,
             value |-> calculateFitnessOn(params, trajectory),
             mismatchError |-> acc.mismatchError,
             populationError |-> acc.populationError,
             dynamismError |-> acc.dynamismError,
             candidateDynamismHistory |-> acc.candidateDynamismHistory]

FitStart ==
    /\ fitParams \in FitCandidates
    /\ fitTrajectory \in FitTrajectories
    /\ fitOutcome = NotCalled

FitIdle ==
    /\ fitParams = DEFAULT_PARAMETERS
    /\ fitTrajectory = <<>>
    /\ fitOutcome = NotCalled

FitnessCall ==
    /\ fitOutcome = NotCalled
    /\ \E outcome \in {calculateFitnessOutcome(fitParams, fitTrajectory)} :
          fitOutcome' = outcome
    /\ UNCHANGED <<fitParams, fitTrajectory, quantumVars, golVars, revVars, searchVars, lifeVars>>

----------------------------------------------------------------------------
(* hooks/useQuantumLife.ts and the parameter handlers of App.tsx.          *)
(* A callback and the commit that follows it (render, effect cleanup,      *)
(* effect) are one step.                                                   *)

\* animationFrameId.current when it holds no frame id (null)
NoFrame == 0
NoFrames == <<>>

createEmptyGrid == [y \in 0..(GRID_HEIGHT-1) |-> [x \in 0..(GRID_WIDTH-1) |-> KET0]]

\* the patterns of resetGrid that fit the grid, and Clear
LifePatterns == {"Clear", "Glider", "Blinker"}

\* the new grid resetGrid builds for a pattern other than Random
patternGrid(pattern) ==
    IF pattern = "Clear" THEN createEmptyGrid
    ELSE LET patternData == PATTERNS[pattern]
             patternHeight == Len(patternData)
             patternWidth == Len(patternData[1])
             startY == (GRID_HEIGHT - patternHeight) \div 2
             startX == (GRID_WIDTH - patternWidth) \div 2
         IN [y \in 0..(GRID_HEIGHT-1) |-> [x \in 0..(GRID_WIDTH-1) |->
                IF /\ y - startY \in 0..(patternHeight-1)
                   /\ x - startX \in 0..(patternWidth-1)
                   /\ patternData[y - startY + 1][x - startX + 1] = 1
                THEN KET1 ELSE KET0]]

\* the grids Math.random() > 0.7 can draw: two of them stand for all
LifeRandomGrids ==
    {[y \in 0..(GRID_HEIGHT-1) |-> [x \in 0..(GRID_WIDTH-1) |->
        IF (y * GRID_WIDTH + x) % 3 = r THEN KET1 ELSE KET0]] : r \in 0..1}

ResetGrids == {patternGrid(pattern) : pattern \in LifePatterns} \cup LifeRandomGrids

\* parseFloat on the texts typed into a coefficient field: a number in
\* units of 1/COEFF_UNITS, or NaN
CoefficientTexts == {"0", "-0.1", ""}
parseFloat(text) ==
    IF text = "0" THEN [isNaN |-> FALSE, numValue |-> 0]
    ELSE IF text = "-0.1" THEN [isNaN |-> FALSE, numValue |-> 0 - (COEFF_UNITS \div 10)]
    ELSE [isNaN |-> TRUE, numValue |-> 0]

\* the coefficient fields edited
EditedParts == { <<"w_neighbor", "cX", "re">>, <<"w_neighbor", "cY", "im">> }

\* the values of the gamma slider explored
SliderGammas == { GammaOne, [num |-> 1, den |-> 2] }

\* the values of bestParams the search hook can report to the handler:
\* null, or the best individual of an initial population
ReportedBestParams == {NoParams} \cup {<<individual>> : individual \in InitPool}

\* the parameters under which every amplitude of the grid stays rational:
\* gamma = 1, or the default coefficients
Exact(p) ==
    \/ p.gamma = GammaOne
    \/ p.w_self = DEFAULT_PARAMETERS.w_self /\ p.w_neighbor = DEFAULT_PARAMETERS.w_neighbor

\* { ...p, [matrix]: { ...p[matrix], [coeff]: { ...p[matrix][coeff], [part]: numValue } } }
withPart(p, matrix, coeff, part, numValue) ==
    [p EXCEPT ![matrix][coeff][part] = numValue]

cancelAnimationFrame(frames, id) == [i \in (DOMAIN frames) \ {id} |-> frames[i]]

\* variant: the cleanup leaves the requested frame alone
lifeEffectCleanup_keepsFrame(frames, ref) == frames

\* if (animationFrameId.current) cancelAnimationFrame(animationFrameId.current):
\* the cleanup of the effect
lifeEffectCleanup(frames, ref) ==
    IF ref # NoFrame THEN cancelAnimationFrame(frames, ref) ELSE frames

\* runSimulation of the render whose params are p: simulationStep(), then
\* animationFrameId.current = requestAnimationFrame(runSimulation)
runSimulation(p, grid, frames, ref) ==
    LET id == FreshTimerId(frames, ref)
    IN [grid |-> performQuantumStep(grid, p), stepped |-> TRUE,
        frames |-> (id :> [params |-> p]) @@ frames, ref |-> id]

\* the effect with dependencies [isRunning, runSimulation], run by a commit
\* in which one of them changed: the cleanup, then the body
lifeEffect(running, p, grid, frames, ref) ==
    LET cleaned == lifeEffectCleanup(frames, ref)
    IN IF running
       THEN runSimulation(p, grid, cleaned, ref)
       ELSE [grid |-> grid, stepped |-> FALSE,
             frames |-> IF ref # NoFrame THEN cancelAnimationFrame(cleaned, ref) ELSE cleaned,
             ref |-> ref]

\* what a commit leaves: after is the record of lifeEffect or runSimulation
LifeCommitted(after, p, generation) ==
    /\ after.stepped => generation < MaxGeneration
    /\ lifeGrid' = after.grid
    /\ lifeGeneration' = IF after.stepped THEN generation + 1 ELSE generation
    /\ lastStepParams' = IF after.stepped THEN <<p>> ELSE lastStepParams
    /\ pendingFrames' = after.frames
    /\ animationFrameId' = after.ref

\* setParams(replacement) and the commit: simulationStep and runSimulation
\* are new functions, so the effect runs
ParamsReplaced(replacement) ==
    /\ Exact(replacement)
    /\ lifeParams' = replacement
    /\ LifeCommitted(lifeEffect(isRunning, replacement, lifeGrid, pendingFrames,
                                animationFrameId), replacement, lifeGeneration)
    /\ UNCHANGED isRunning

LifeUntouched ==
    UNCHANGED <<lifeGrid, lifeGeneration, isRunning, lifeParams, animationFrameId,
                pendingFrames, lastStepParams>>

handleParamChange ==
    /\ lifeEvent' = "handleParamChange"
    /\ \E pt \in EditedParts, text \in CoefficientTexts :
          LET parsed == parseFloat(text)
          IN IF parsed.isNaN THEN LifeUntouched
             ELSE ParamsReplaced(withPart(lifeParams, pt[1], pt[2], pt[3], parsed.numValue))
    /\ UNCHANGED <<golVars, revVars, searchVars, benchVars>>

handleGammaChange ==
    /\ lifeEvent' = "handleGammaChange"
    /\ \E value \in SliderGammas : ParamsReplaced([lifeParams EXCEPT !.gamma = value])
    /\ UNCHANGED <<golVars, revVars, searchVars, benchVars>>

\* if (bestParams) setParams(p => ({ ...bestParams, gamma: p.gamma }))
handleApplyBestParams ==
    /\ lifeEvent' = "handleApplyBestParams"
    /\ \E best \in ReportedBestParams :
          IF best = NoParams THEN LifeUntouched
          ELSE ParamsReplaced([best[1] EXCEPT !.gamma = lifeParams.gamma])
    /\ UNCHANGED <<golVars, revVars, searchVars, benchVars>>

\* onStep: simulationStep of the current render; params and isRunning stay,
\* so the effect does not run
simulationStep ==
    /\ lifeEvent' = "simulationStep"
    /\ LifeCommitted([grid |-> performQuantumStep(lifeGrid, lifeParams), stepped |-> TRUE,
                      frames |-> pendingFrames, ref |-> animationFrameId],
                     lifeParams, lifeGeneration)
    /\ UNCHANGED <<isRunning, lifeParams, golVars, revVars, searchVars, benchVars>>

\* onToggleRunning: setIsRunning(!isRunning); the effect runs
toggleRunning ==
    /\ lifeEvent' = "toggleRunning"
    /\ isRunning' = ~isRunning
    /\ LifeCommitted(lifeEffect(isRunning', lifeParams, lifeGrid, pendingFrames,
                                animationFrameId), lifeParams, lifeGeneration)
    /\ UNCHANGED <<lifeParams, golVars, revVars, searchVars, benchVars>>

\* the frame id fires: the runSimulation it was requested with runs; the
\* render that follows changes neither isRunning nor runSimulation
frameFires(id) ==
    /\ id \in DOMAIN pendingFrames
    /\ lifeEvent' = "frame"
    /\ LET p == pendingFrames[id].params
       IN LifeCommitted(runSimulation(p, lifeGrid, cancelAnimationFrame(pendingFrames, id),
                                      animationFrameId), p, lifeGeneration)
    /\ UNCHANGED <<isRunning, lifeParams, golVars, revVars, searchVars, benchVars>>

FrameFires == \E id \in DOMAIN pendingFrames : frameFires(id)

\* resetGrid: setIsRunning(false), setGeneration(0), setGrid(newGrid); the
\* effect runs when isRunning was true
resetGrid ==
    /\ lifeEvent' = "resetGrid"
    /\ isRunning' = FALSE
    /\ \E newGrid \in ResetGrids :
          LifeCommitted(IF isRunning
                        THEN lifeEffect(FALSE, lifeParams, newGrid, pendingFrames,
                                        animationFrameId)
                        ELSE [grid |-> newGrid, stepped |-> FALSE,
                              frames |-> pendingFrames, ref |-> animationFrameId],
                        lifeParams, 0)
    /\ UNCHANGED <<lifeParams, golVars, revVars, searchVars, benchVars>>

\* the hook once the component has mounted: the effect has run with
\* isRunning false
LifeInit ==
    /\ lifeGrid = createEmptyGrid
    /\ lifeGeneration = 0
    /\ isRunning = FALSE
    /\ lifeParams = DEFAULT_PARAMETERS
    /\ animationFrameId = NoFrame
    /\ pendingFrames = NoFrames
    /\ lastStepParams = NoParams
    /\ lifeEvent = "mount"

LifeIdle ==
    /\ lifeGrid = createEmptyGrid
    /\ lifeGeneration = 0
    /\ isRunning = FALSE
    /\ lifeParams = DEFAULT_PARAMETERS
    /\ animationFrameId = NoFrame
    /\ pendingFrames = NoFrames
    /\ lastStepParams = NoParams
    /\ lifeEvent = "none"

----------------------------------------------------------------------------
(* Specifications *)

InitGOL == GolStart /\ RevIdle /\ SearchIdle /\ QuantumIdle /\ FitIdle /\ LifeIdle
NextGOL == GolStep
SpecGOL == InitGOL /\ [][NextGOL]_vars

InitReversible == RevInit /\ GolIdle /\ SearchIdle /\ QuantumIdle /\ FitIdle /\ LifeIdle
NextReversible ==
    \/ ToggleCell
    \/ LoadPattern
    \/ clearAll
    \/ computeIntoTarget
    \/ swapRegisters
    \/ advanceCycle
    \/ resetTarget
SpecReversible == InitReversible /\ [][NextReversible]_vars

InitSearch == SearchInit /\ GolIdle /\ RevIdle /\ QuantumIdle /\ FitIdle /\ LifeIdle
NextSearch ==
    \/ toggleSearch
    \/ resetSearch
    \/ TimerFires
SpecSearch == InitSearch /\ [][NextSearch]_vars

InitQuantum == QuantumStart /\ RevIdle /\ SearchUnused /\ FitIdle /\ LifeIdle
NextQuantum ==
    \/ QuantumStepCall
    \/ GolStep
SpecQuantum == InitQuantum /\ [][NextQuantum]_vars

InitFitness == FitStart /\ GolIdle /\ RevIdle /\ SearchUnused /\ QuantumIdle /\ LifeIdle
NextFitness == FitnessCall
SpecFitness == InitFitness /\ [][NextFitness]_vars

InitLife == LifeInit /\ GolIdle /\ RevIdle /\ SearchIdle /\ QuantumIdle /\ FitIdle
NextLife ==
    \/ handleParamChange
    \/ handleGammaChange
    \/ handleApplyBestParams
    \/ simulationStep
    \/ toggleRunning
    \/ FrameFires
    \/ resetGrid
SpecLife == InitLife /\ [][NextLife]_vars

----------------------------------------------------------------------------
(* Properties of the classical step *)

Wrap(k, n) == (k + n) % n

\* the Game-of-Life rule, stated cell by cell over the 8 wrapped neighbours
LifeRule(g) ==
    LET h == Height(g)
        w == Width(g)
        s(y, x) == g[Wrap(y-1, h)][Wrap(x-1, w)] + g[Wrap(y-1, h)][x]
                   + g[Wrap(y-1, h)][Wrap(x+1, w)]
                   + g[y][Wrap(x-1, w)] + g[y][Wrap(x+1, w)]
                   + g[Wrap(y+1, h)][Wrap(x-1, w)] + g[Wrap(y+1, h)][x]
                   + g[Wrap(y+1, h)][Wrap(x+1, w)]
    IN [y \in 0..(h-1) |-> [x \in 0..(w-1) |->
            IF \/ g[y][x] = 1 /\ s(y, x) \in {2, 3}
               \/ g[y][x] = 0 /\ s(y, x) = 3
            THEN 1 ELSE 0]]

\* C9: every application of performGOLStep yields, cell by cell, 1 exactly
\* when (cell = 1 and its 8 wrapped neighbours sum to 2 or 3) or (cell = 0
\* and they sum to 3), on a grid of the same dimensions.
C9_LifeRule ==
    [][golSteps' = golSteps + 1 =>
         /\ golGrid' = LifeRule(golGrid)
         /\ Height(golGrid') = Height(golGrid)
         /\ Width(golGrid') = Width(golGrid)]_vars

\* a first step in which a cell was born, one survived and one died
C9_Witness ==
    /\ golSteps = 1
    /\ \E y \in DOMAIN golGrid : \E x \in DOMAIN golGrid[y] :
          golInput[y][x] = 0 /\ golGrid[y][x] = 1
    /\ \E y \in DOMAIN golGrid : \E x \in DOMAIN golGrid[y] :
          golInput[y][x] = 1 /\ golGrid[y][x] = 1
    /\ \E y \in DOMAIN golGrid : \E x \in DOMAIN golGrid[y] :
          golInput[y][x] = 1 /\ golGrid[y][x] = 0

\* C10: a glider on an otherwise empty torus has population 5 after every
\* step, and after 4 steps it is the original grid translated by (1,1).
C10_GliderTranslates ==
    golInput \in GliderGrids =>
        /\ Population(golGrid) = 5
        /\ golSteps = 4 => golGrid = Translate(golInput, 1, 1)

\* a glider that has made its 4 steps, across the edge of the torus
C10_Witness ==
    /\ golInput \in GliderGrids
    /\ golSteps = 4
    /\ golGrid # golInput
    /\ \E x \in DOMAIN golGrid[0] : golGrid[0][x] = 1 /\ golGrid[GliderTorus-1][x] = 1

----------------------------------------------------------------------------
(* Properties of the reversible registers *)

AllZero(grid) == \A y \in DOMAIN grid : \A x \in DOMAIN grid[y] : grid[y][x] = 0

AdvanceCalled == lastOp' = "advanceCycle" /\ opCount' = opCount + 1

\* C1: advance with an all-zero target returns true, leaves
\* classicalStep(P) in the system register and P in the target register.
C1_AdvanceFromClean ==
    [][AdvanceCalled /\ AllZero(targetGrid) =>
         /\ advanceOk' = TRUE
         /\ systemGrid' = performGOLStep(systemGrid)
         /\ targetGrid' = systemGrid]_vars

\* a successful advance from a non-empty system that the step changed
C1_Witness ==
    /\ lastOp = "advanceCycle"
    /\ advanceOk = TRUE
    /\ ~AllZero(targetGrid)
    /\ ~AllZero(systemGrid)
    /\ systemGrid # targetGrid

\* C2: advance with a non-zero cell in the target returns false and leaves
\* both registers as they were (so a second advance right after a
\* successful one from a non-empty system fails).
C2_AdvanceFromDirty ==
    [][AdvanceCalled /\ ~AllZero(targetGrid) =>
         /\ advanceOk' = FALSE
         /\ systemGrid' = systemGrid
         /\ targetGrid' = targetGrid]_vars

\* a refused advance, the registers being those a successful advance leaves
C2_Witness ==
    /\ lastOp = "advanceCycle"
    /\ advanceOk = FALSE
    /\ ~AllZero(targetGrid)
    /\ systemGrid = performGOLStep(targetGrid)

----------------------------------------------------------------------------
(* Claims about the rule search *)

\* the step runs initializeSearch: resetSearch, or toggleSearch from a
\* stopped search whose generation counter is 0
InitializingStep ==
    \/ lastEvent' = "resetSearch"
    \/ lastEvent' = "toggleSearch" /\ ~isSearching /\ generationRef = 0

SearchData == <<populationRef, generationRef, searchProgress, bestParams>>

\* C3: the reported best fitness decreases only in a step that initialises
\* or resets the search; generations, pauses and resumes never lower it.
C3_BestFitnessRises ==
    [][FitGreater(searchProgress.bestFitness, searchProgress'.bestFitness)
          => InitializingStep]_vars

\* a search resumed after two generations that improved on the initial pool
C3_Witness ==
    /\ lastEvent = "toggleSearch"
    /\ isSearching
    /\ generationRef = 2
    /\ FitGreater(searchProgress.bestFitness, [num |-> 2, den |-> 86])

\* C4: a runGeneration step adds exactly 1 to the generation counter and
\* leaves searchProgress.generation equal to it; the counter goes down only
\* in an initialising step.
C4_GenerationCounts ==
    [][/\ lastEvent' = "runGeneration"
            => /\ generationRef' = generationRef + 1
               /\ searchProgress'.generation = generationRef'
       /\ generationRef' < generationRef => InitializingStep /\ generationRef' = 0]_vars

\* the second generation has completed without improving on the first
C4_Witness ==
    /\ lastEvent = "runGeneration"
    /\ generationRef = 2
    /\ searchProgress.generation = 2
    /\ FitEqual(searchProgress.bestFitness, [num |-> 2, den |-> 86])

\* C5: while the search is not running no generation executes and no timer
\* is pending, only an initialising step changes the population, the
\* generation counter, the best fitness or the best parameters, and a
\* toggle with generation > 0 resumes from exactly that data.
C5_PausedHolds ==
    [][~isSearching =>
          /\ pendingTimers = NoTimers
          /\ lastEvent' # "runGeneration"
          /\ ~InitializingStep => UNCHANGED SearchData
          /\ lastEvent' = "toggleSearch" /\ generationRef > 0
                => /\ isSearching'
                   /\ UNCHANGED SearchData
                   /\ pendingTimers' # NoTimers]_vars

\* paused after the first generation
C5_Witness ==
    /\ lastEvent = "toggleSearch"
    /\ ~isSearching
    /\ generationRef = 1
    /\ bestParams # NoParams

\* C6: a resetSearch step leaves generation 0 (internal and reported), best
\* fitness 0, no best parameters, the search stopped, POPULATION_SIZE newly
\* created individuals and no pending timer; no generation runs from there.
C6_ResetState ==
    [][/\ lastEvent' = "resetSearch"
            => /\ generationRef' = 0
               /\ searchProgress' = [generation |-> 0, bestFitness |-> ZeroFitness]
               /\ bestParams' = NoParams
               /\ ~isSearching'
               /\ Len(populationRef') = POPULATION_SIZE
               /\ \A i \in 1..POPULATION_SIZE : populationRef'[i] \in InitPool
               /\ pendingTimers' = NoTimers
       /\ lastEvent = "resetSearch" => lastEvent' # "runGeneration"]_vars

\* a reset of a search that had converged
C6_Witness ==
    /\ lastEvent = "resetSearch"
    /\ ExceedsSuccessThreshold(lastTopFitness)
    /\ generationRef = 0

\* C7: after a generation the reported best fitness is the largest top
\* fitness evaluated since the last initialisation, within the 1e-9
\* tolerance, and the reported best parameters have that fitness.
C7_BestIsMaximum ==
    lastEvent = "runGeneration" =>
        /\ bestParams # NoParams
        /\ ~FitGreater(searchProgress.bestFitness, maxTopFitness)
        /\ ~FitExceedsByTolerance(maxTopFitness, searchProgress.bestFitness)
        /\ FitEqual(calculateFitness(bestParams[1]), searchProgress.bestFitness)

\* the second generation improved on the first without converging
C7_Witness ==
    /\ lastEvent = "runGeneration"
    /\ generationRef = 2
    /\ FitGreater(searchProgress.bestFitness, [num |-> 2, den |-> 86])
    /\ ~ExceedsSuccessThreshold(searchProgress.bestFitness)
    /\ isSearching

\* C8: a generation whose top fitness exceeds the success threshold stops
\* the search, keeps the population and leaves no timer pending; the next
\* step from there is not a generation.
C8_ConvergenceStops ==
    [][/\ lastEvent' = "runGeneration" /\ ExceedsSuccessThreshold(lastTopFitness')
            => /\ ~isSearching'
               /\ populationRef' = populationRef
               /\ pendingTimers' = NoTimers
       /\ lastEvent = "runGeneration" /\ ExceedsSuccessThreshold(lastTopFitness)
            => lastEvent' # "runGeneration"]_vars

\* the search has just converged
C8_Witness ==
    /\ lastEvent = "runGeneration"
    /\ ExceedsSuccessThreshold(lastTopFitness)
    /\ ~isSearching
    /\ pendingTimers = NoTimers

----------------------------------------------------------------------------
(* Further properties of the reversible registers *)

\* cell by cell exclusive or of two grids of the same shape
XorGrid(a, b) == [y \in DOMAIN a |-> [x \in DOMAIN a[y] |-> (a[y][x] + b[y][x]) % 2]]

ComputeCalled == lastOp' = "computeIntoTarget" /\ opCount' = opCount + 1
SwapCalled == lastOp' = "swapRegisters" /\ opCount' = opCount + 1

\* C19: computeIntoTarget replaces the target by target XOR
\* classicalStep(system), cell by cell, and keeps the system; after two
\* calls in succession the target is what it was before the first.
C19_ComputeIsInvolution ==
    [][ComputeCalled =>
         /\ targetGrid' = XorGrid(targetGrid, LifeRule(systemGrid))
         /\ systemGrid' = systemGrid
         /\ computeRun'.length = 2 => targetGrid' = computeRun'.start]_vars

\* two calls in succession on a system whose step is not empty and a target
\* that was not empty
C19_Witness ==
    /\ lastOp = "computeIntoTarget"
    /\ computeRun.length = 2
    /\ ~AllZero(LifeRule(systemGrid))
    /\ ~AllZero(targetGrid)

\* the registers computeIntoTarget and then swapRegisters leave
ComputeThenSwap(system, target) ==
    [system |-> XorGrid(target, LifeRule(system)), target |-> system]

\* C20: advance from a clean target leaves, in one step, the registers that
\* computeIntoTarget followed by swapRegisters leave (each of the two being
\* what its own call does); from a target that is not clean it changes
\* neither register.
C20_AdvanceIsComputeThenSwap ==
    [][/\ ComputeCalled
            => /\ systemGrid' = systemGrid
               /\ targetGrid' = XorGrid(targetGrid, LifeRule(systemGrid))
       /\ SwapCalled
            => /\ systemGrid' = targetGrid
               /\ targetGrid' = systemGrid
       /\ AdvanceCalled /\ AllZero(targetGrid)
            => /\ systemGrid' = ComputeThenSwap(systemGrid, targetGrid).system
               /\ targetGrid' = ComputeThenSwap(systemGrid, targetGrid).target
       /\ AdvanceCalled /\ ~AllZero(targetGrid)
            => UNCHANGED <<systemGrid, targetGrid>>]_vars

\* a second successful advance, after the target was reset
C20_Witness ==
    /\ lastOp = "advanceCycle"
    /\ advanceOk = TRUE
    /\ opCount = MaxOps
    /\ ~AllZero(targetGrid)
    /\ systemGrid = LifeRule(targetGrid)
    /\ systemGrid # targetGrid

----------------------------------------------------------------------------
(* Properties of the quantum step *)

\* offsets of the translations of a side of n cells: one for every residue
\* modulo n, a negative one included
QShifts(n) == (-1)..(n - 2)

\* C11: performQuantumStep commutes with toroidal translation: stepping the
\* input translated by (dy,dx) gives the output translated by (dy,dx), for
\* every grid, parameter set and offset.
C11_ShiftInvariant ==
    qOutput # NoGrid =>
        \A dy \in QShifts(Height(qInput)) : \A dx \in QShifts(Width(qInput)) :
            performQuantumStep(Translate(qInput, dy, dx), qParams)
                = Translate(qOutput, dy, dx)

\* a step with neighbour coupling on a grid whose translate by (1,1) is
\* another grid, and whose output is another grid when translated
C11_Witness ==
    /\ qOutput # NoGrid
    /\ qParams.w_neighbor # DEFAULT_PARAMETERS.w_neighbor
    /\ Height(qInput) > 1 /\ Width(qInput) > 1
    /\ Translate(qInput, 1, 1) # qInput
    /\ Translate(qOutput, 1, 1) # qOutput
    /\ Translate(qOutput, 1, 0) # qOutput

\* the cell (y,x) of a grid with its 8 wrapped neighbours, as a torus of
\* 3 x 3 cells with the cell in the middle
Window(grid, y, x) ==
    LET h == Height(grid)
        w == Width(grid)
    IN [i \in 0..2 |-> [j \in 0..2 |-> grid[(y + i - 1 + h) % h][(x + j - 1 + w) % w]]]

QuantumStepped == qOutput = NoGrid /\ qOutput' # NoGrid
GolStepped == golSteps' = golSteps + 1

\* C12: both steps update simultaneously: every cell of the grid returned is
\* what the step makes of the input's own cell and its 8 wrapped neighbours
\* alone (never of an updated cell), and the input grid is left as it was.
C12_SimultaneousUpdate ==
    [][/\ QuantumStepped =>
            /\ qInput' = qInput
            /\ \A y \in DOMAIN qInput : \A x \in DOMAIN qInput[y] :
                  qOutput'[y][x] = performQuantumStep(Window(qInput, y, x), qParams)[1][1]
       /\ GolStepped =>
            /\ golInput' = golInput
            /\ DOMAIN golGrid' = DOMAIN golGrid
            /\ \A y \in DOMAIN golGrid : \A x \in DOMAIN golGrid[y] :
                  golGrid'[y][x] = performGOLStep(Window(golGrid, y, x))[1][1]]_vars

\* both steps taken on a grid of several cells, with neighbour coupling,
\* and both changed the classical value of some cell
C12_Witness ==
    /\ qOutput # NoGrid
    /\ golSteps = MaxGolSteps
    /\ Height(qInput) * Width(qInput) > 2
    /\ qParams.w_neighbor # DEFAULT_PARAMETERS.w_neighbor
    /\ golGrid # golInput
    /\ qOutput # qInput
    /\ \E y \in DOMAIN qInput : \E x \in DOMAIN qInput[y] : qOutput[y][x] # qOutput[0][0]

\* p of a cell, the probability of |1> after Stage A, as [num, den]
StageAProb(y, x) ==
    LET qubit == coherentCell(qInput, constructMatrix(qParams.w_self),
                              constructMatrix(qParams.w_neighbor), y, x)
    IN [num |-> qubit.vec[2].re * qubit.vec[2].re + qubit.vec[2].im * qubit.vec[2].im,
        den |-> qubit.magSq]

\* p >= 0.5 as the program evaluates it: when p is exactly 1/2 the rounded
\* value lies on either side
AtLeastHalf(p) == 2 * p.num > p.den \/ (2 * p.num = p.den /\ tieRoundsUp)

\* (1 - gamma) * p + gamma * attractor, clamped to [0,1]
ExpectedPFinal(p, gamma) ==
    LET attractor == IF AtLeastHalf(p) THEN 1 ELSE 0
        num == (gamma.den - gamma.num) * p.num + gamma.num * attractor * p.den
        den == gamma.den * p.den
    IN IF num < 0 THEN [num |-> 0, den |-> 1]
       ELSE IF num > den THEN [num |-> 1, den |-> 1]
       ELSE [num |-> num, den |-> den]

IsRoot(c) == "sqrtOf" \in DOMAIN c
\* an amplitude is real and not negative
RealNonNegative(c) ==
    IF IsRoot(c) THEN c.sqrtOf.num >= 0 /\ c.sqrtOf.den > 0
    ELSE c.im = 0 /\ c.re >= 0
\* the square of a real amplitude, as [num, den]
AmpSquared(c) == IF IsRoot(c) THEN c.sqrtOf ELSE [num |-> c.re * c.re, den |-> 1]
RECURSIVE Gcd(_, _)
Gcd(a, b) == IF b = 0 THEN a ELSE Gcd(b, a % b)
\* a rational with num >= 0 and den > 0 in lowest terms
Lowest(r) == [num |-> r.num \div Gcd(r.num, r.den), den |-> r.den \div Gcd(r.num, r.den)]
RatEqual(a, b) == Lowest(a) = Lowest(b)
\* a + b = 1: in lowest terms the denominators agree
SumToOne(a, b) ==
    /\ Lowest(a).den = Lowest(b).den
    /\ Lowest(a).num + Lowest(b).num = Lowest(a).den

\* C13: with gamma in [0,1], every cell of the output of performQuantumStep
\* is (sqrt(1 - pFinal), 0), (sqrt(pFinal), 0), where pFinal is
\* (1 - gamma) * p + gamma * attractor clamped to [0,1] and attractor is 1
\* iff p >= 0.5: both amplitudes are real and not negative, their squares
\* sum to 1, and with gamma = 1 the cell is exactly |0> or |1>.
C13_StageBOutput ==
    qOutput # NoGrid =>
        \A y \in DOMAIN qOutput : \A x \in DOMAIN qOutput[y] :
            LET cell == qOutput[y][x]
                pFinal == ExpectedPFinal(StageAProb(y, x), qParams.gamma)
                sq0 == AmpSquared(cell[1])
                sq1 == AmpSquared(cell[2])
            IN /\ Len(cell) = 2
               /\ RealNonNegative(cell[1]) /\ RealNonNegative(cell[2])
               /\ RatEqual(sq1, pFinal)
               /\ RatEqual(sq0, [num |-> pFinal.den - pFinal.num, den |-> pFinal.den])
               /\ SumToOne(sq0, sq1)
               /\ qParams.gamma = GammaOne => cell \in {KET0, KET1}

\* a step with gamma = 0.5 that left one cell with an irrational amplitude
\* above the threshold and another cell below it
C13_Witness ==
    /\ qOutput # NoGrid
    /\ qParams.gamma = [num |-> 1, den |-> 2]
    /\ \E y \in DOMAIN qOutput : \E x \in DOMAIN qOutput[y] :
          /\ IsRoot(qOutput[y][x][2])
          /\ 2 * AmpSquared(qOutput[y][x][2]).num > AmpSquared(qOutput[y][x][2]).den
          /\ StageAProb(y, x).num < StageAProb(y, x).den
    /\ \E y \in DOMAIN qOutput : \E x \in DOMAIN qOutput[y] :
          2 * AmpSquared(qOutput[y][x][2]).num < AmpSquared(qOutput[y][x][2]).den

----------------------------------------------------------------------------
(* Properties of the fitness evaluation *)

Returned == fitOutcome.called /\ ~fitOutcome.threw
\* the trajectory is one the ref holds in the program: empty, or complete
WellFormed == Len(fitTrajectory) = FITNESS_SIM_STEPS + 1
\* 0 < f <= 1.5
PositiveUpToBonus(f) == f.num > 0 /\ f.den > 0 /\ 2 * f.num <= DYNAMISM_BONUS_HALVES * f.den

\* C14, as stated: the value calculateFitness returns is greater than 0 and
\* at most the bonus multiplier 1.5, for every candidate and every state of
\* the ground-truth trajectory (empty before the search is initialised,
\* complete after).
C14_AlwaysPositive ==
    (Returned /\ (WellFormed \/ fitTrajectory = <<>>)) => PositiveUpToBonus(fitOutcome.value)

\* C14, amended: with the complete trajectory the value is greater than 0
\* and at most 1.5; with the empty trajectory it is 0.
C14_PositiveWhenPrecomputed ==
    /\ (fitOutcome.called /\ WellFormed) =>
            ~fitOutcome.threw /\ PositiveUpToBonus(fitOutcome.value)
    /\ (fitOutcome.called /\ fitTrajectory = <<>>) =>
            ~fitOutcome.threw /\ fitOutcome.value.num = 0

\* a candidate with errors evaluated on the complete trajectory, its
\* fitness below 1
C14_Witness ==
    /\ Returned
    /\ WellFormed
    /\ fitOutcome.mismatchError > 0
    /\ fitOutcome.value.num < fitOutcome.value.den

RECURSIVE CandidateGrids(_, _, _)
CandidateGrids(params, quantumGrid, n) ==
    IF n = 0 THEN <<>>
    ELSE LET next == performQuantumStep(quantumGrid, [params EXCEPT !.gamma = GammaOne])
         IN <<thresholdGrid(next)>> \o CandidateGrids(params, next, n - 1)

ExactMatch ==
    /\ WellFormed
    /\ CandidateGrids(fitParams, createQubitGridFromClassical(fitTrajectory[1].grid),
                      FITNESS_SIM_STEPS)
         = [step \in 1..FITNESS_SIM_STEPS |-> fitTrajectory[step + 1].grid]

\* the ground truth itself does not end in STAGNATION_CHECK_LENGTH steps
\* without a flip (the seeded trajectory of the program does not)
GroundTruthActive ==
    \/ FITNESS_SIM_STEPS < STAGNATION_CHECK_LENGTH
    \/ \E step \in (FITNESS_SIM_STEPS - STAGNATION_CHECK_LENGTH + 1)..FITNESS_SIM_STEPS :
          fitTrajectory[step + 1].flipsSincePrevStep > 0

\* C16: a candidate whose thresholded grid equals the ground-truth grid at
\* every step has mismatch, population and dynamism errors 0, and its
\* fitness is the maximum, 1 times the dynamism bonus: 1.5.
C16_ExactMatchIsMaximum ==
    (Returned /\ ExactMatch /\ GroundTruthActive) =>
        /\ fitOutcome.mismatchError = 0
        /\ fitOutcome.populationError = 0
        /\ fitOutcome.dynamismError = 0
        /\ 2 * fitOutcome.value.num = DYNAMISM_BONUS_HALVES * fitOutcome.value.den

\* a candidate with neighbour coupling that reproduces the ground truth,
\* populated grid and flips included, has been evaluated
C16_Witness ==
    /\ Returned
    /\ ExactMatch
    /\ GroundTruthActive
    /\ fitParams.w_neighbor # DEFAULT_PARAMETERS.w_neighbor
    /\ \E step \in 1..(FITNESS_SIM_STEPS + 1) : fitTrajectory[step].population > 0
    /\ \E k \in DOMAIN fitOutcome.candidateDynamismHistory :
          fitOutcome.candidateDynamismHistory[k] > 0

----------------------------------------------------------------------------
(* Further claims about the rule search *)

\* C17: after initialisation and after any number of generations every
\* individual of the population and the reported best parameters have
\* gamma = 1.0, and the fitness evaluation steps with gamma = 1.0 whatever
\* gamma the candidate carries.
C17_GammaIsOne ==
    /\ \A k \in DOMAIN populationRef : populationRef[k].gamma = GammaOne
    /\ bestParams # NoParams => bestParams[1].gamma = GammaOne
    /\ lastEvent = "runGeneration" =>
          \A gamma \in QGammas \ {GammaOne} :
              calculateFitness([bestParams[1] EXCEPT !.gamma = gamma])
                  = searchProgress.bestFitness

\* two generations have run: the population holds a bred individual and
\* the best parameters are reported
C17_Witness ==
    /\ lastEvent = "runGeneration"
    /\ generationRef = 2
    /\ bestParams # NoParams
    /\ \E k \in DOMAIN populationRef : populationRef[k] \notin InitPool

FitnessCells == (0..(FITNESS_GRID_SIZE - 1)) \X (0..(FITNESS_GRID_SIZE - 1))
LiveCells(grid) == {c \in FitnessCells : grid[c[1]][c[2]] = 1}
DifferingCells(a, b) == {c \in FitnessCells : a[c[1]][c[2]] # b[c[1]][c[2]]}

\* C18: the ground-truth trajectory has FITNESS_SIM_STEPS + 1 steps; step 0
\* holds the seeded grid with its live-cell count and 0 flips; every later
\* step holds performGOLStep of the grid before it, that grid's live-cell
\* count and the number of cells differing from the grid before it; no
\* recorded grid is altered by the steps after it.
C18_GroundTruthTrajectory ==
    LET trajectory == groundTruthTrajectoryRef
    IN /\ Len(trajectory) = FITNESS_SIM_STEPS + 1
       /\ \A c \in FitnessCells :
             trajectory[1].grid[c[1]][c[2]] = SeededAlive[c[1] * FITNESS_GRID_SIZE + c[2] + 1]
       /\ trajectory[1].flipsSincePrevStep = 0
       /\ \A i \in 1..Len(trajectory) :
             /\ DOMAIN trajectory[i].grid = 0..(FITNESS_GRID_SIZE - 1)
             /\ trajectory[i].population = Cardinality(LiveCells(trajectory[i].grid))
       /\ \A i \in 2..Len(trajectory) :
             /\ trajectory[i].grid = LifeRule(trajectory[i-1].grid)
             /\ trajectory[i].grid = performGOLStep(trajectory[i-1].grid)
             /\ trajectory[i].flipsSincePrevStep
                  = Cardinality(DifferingCells(trajectory[i].grid, trajectory[i-1].grid))

\* generations have been evaluated against a trajectory whose seeded grid
\* is populated and whose first step flips cells
C18_Witness ==
    /\ lastEvent = "runGeneration"
    /\ generationRef = MaxGen
    /\ groundTruthTrajectoryRef[1].population > 0
    /\ groundTruthTrajectoryRef[2].flipsSincePrevStep > 0
    /\ groundTruthTrajectoryRef[2].grid # groundTruthTrajectoryRef[1].grid

----------------------------------------------------------------------------
(* Sequences of register operations *)

\* the operations of the last n entries of the log, oldest first
LastOps(log, n) ==
    IF Len(log) < n THEN <<>>
    ELSE [k \in 1..n |-> log[Len(log) - n + k].op]
\* the entry n calls back in the log
Before(log, n) == log[Len(log) - n + 1]

\* C21: swapRegisters exchanges the registers, whatever operations came
\* before it: the system becomes the target as it was and the target the
\* system as it was; two consecutive swaps restore both registers.
C21_SwapExchanges ==
    [][SwapCalled =>
         /\ systemGrid' = targetGrid
         /\ targetGrid' = systemGrid
         /\ LastOps(opLog', 2) = <<"swapRegisters", "swapRegisters">> =>
               /\ systemGrid' = Before(opLog', 2).system
               /\ targetGrid' = Before(opLog', 2).target]_vars

\* a second swap in a row has been made on two populated registers that
\* differ
C21_Witness ==
    /\ lastOp = "swapRegisters"
    /\ LastOps(opLog, 2) = <<"swapRegisters", "swapRegisters">>
    /\ systemGrid # targetGrid
    /\ ~AllZero(systemGrid)
    /\ ~AllZero(targetGrid)

\* C24: from a system P and a clean target, advanceCycle, swapRegisters and
\* computeIntoTarget in a row end with system P and a clean target again.
C24_AdvanceUndone ==
    [][(/\ ComputeCalled
        /\ LastOps(opLog', 3) = <<"advanceCycle", "swapRegisters", "computeIntoTarget">>
        /\ AllZero(Before(opLog', 3).target))
          => /\ systemGrid' = Before(opLog', 3).system
             /\ AllZero(targetGrid')]_vars

\* the three calls have been made from a populated system whose next
\* generation is populated and another grid
C24_Witness ==
    /\ lastOp = "computeIntoTarget"
    /\ LastOps(opLog, 3) = <<"advanceCycle", "swapRegisters", "computeIntoTarget">>
    /\ AllZero(opLog[1].target)
    /\ ~AllZero(opLog[1].system)
    /\ ~AllZero(LifeRule(opLog[1].system))
    /\ LifeRule(opLog[1].system) # opLog[1].system
    /\ opLog[3].target = LifeRule(opLog[1].system)

----------------------------------------------------------------------------
(* The generations of the rule search *)

\* the last step was a generation that did not converge
BredGeneration == lastEvent = "runGeneration" /\ ~ExceedsSuccessThreshold(lastTopFitness)

\* the ways to pick n distinct individuals of a population, in order
Picks(population, n) ==
    {f \in [1..n -> DOMAIN population] : \A i, j \in 1..n : f[i] = f[j] => i = j}

\* C22: after a generation that does not converge the population has
\* POPULATION_SIZE members; its first ELITISM_COUNT members are distinct
\* individuals of the evaluated population, coefficient for coefficient,
\* and the i-th of them has the i-th of the fitness values computed for that
\* population, which no later value exceeds.
C22_ElitesCarriedOver ==
    /\ [](BredGeneration =>
            /\ Len(populationRef) = POPULATION_SIZE
            /\ Len(lastFitnessScores) = POPULATION_SIZE
            /\ \A i \in 1..ELITISM_COUNT :
                  /\ FitEqual(calculateFitness(populationRef[i]), lastFitnessScores[i])
                  /\ \A j \in (i + 1)..Len(lastFitnessScores) :
                        ~FitGreater(lastFitnessScores[j], lastFitnessScores[i]))
    /\ [][BredGeneration' =>
            \E f \in Picks(populationRef, ELITISM_COUNT) :
                \A i \in 1..ELITISM_COUNT : populationRef'[i] = populationRef[f[i]]]_vars

\* the second generation ranked a bred individual strictly above the rest
\* of its population and carried it over
C22_Witness ==
    /\ BredGeneration
    /\ generationRef = 2
    /\ FitGreater(lastFitnessScores[1], lastFitnessScores[2])
    /\ populationRef[1] \notin InitPool
    /\ populationRef[2] \in InitPool

\* the runGeneration closure of the current render
CurrentClosure == [bestParams |-> bestParams, searchProgress |-> searchProgress]

\* C26: at most one generation callback is pending; it is the one
\* timeoutRef holds, it is pending only while the search runs, and it is
\* the runGeneration of the current render, never a superseded closure.
C26_OnePendingGeneration ==
    /\ Cardinality(DOMAIN pendingTimers) <= 1
    /\ \A id \in DOMAIN pendingTimers :
          /\ id = timeoutRef
          /\ isSearching
          /\ pendingTimers[id] = CurrentClosure

\* a generation has rescheduled itself and the commit after it replaced
\* that timer by one for the new closure
C26_Witness ==
    /\ lastEvent = "runGeneration"
    /\ isSearching
    /\ Cardinality(DOMAIN pendingTimers) = 1
    /\ timeoutRef \in DOMAIN pendingTimers
    /\ pendingTimers[timeoutRef].searchProgress.generation = 2
    /\ pendingTimers[timeoutRef].bestParams # NoParams

\* C27: in every state a generation can execute from, and in every other
\* reachable state, the population has POPULATION_SIZE individuals and the
\* ground-truth trajectory has FITNESS_SIM_STEPS + 1 steps, each with its
\* grid: populationRef[0] and every groundTruthTrajectory[step + 1] read by
\* calculateFitness exist.
C27_LookupsDefined ==
    /\ Len(populationRef) = POPULATION_SIZE
    /\ DOMAIN populationRef = 1..POPULATION_SIZE
    /\ Len(groundTruthTrajectoryRef) = FITNESS_SIM_STEPS + 1
    /\ \A step \in 0..(FITNESS_SIM_STEPS - 1) :
          /\ step + 2 \in DOMAIN groundTruthTrajectoryRef
          /\ DOMAIN groundTruthTrajectoryRef[step + 2].grid = 0..(FITNESS_GRID_SIZE - 1)

\* a generation is about to execute on a population bred by the one before
C27_Witness ==
    /\ pendingTimers # NoTimers
    /\ generationRef = 1
    /\ lastEvent = "runGeneration"
    /\ populationRef[POPULATION_SIZE] \notin InitPool

\* C28: the reported generation is 0 exactly when the best parameters are
\* null, and then the best fitness is 0; once a generation has completed
\* since the last initialisation the best parameters are set and the
\* reported best fitness is the fitness of exactly those parameters.
C28_ReportConsistent ==
    /\ searchProgress.generation = 0 <=> bestParams = NoParams
    /\ bestParams = NoParams => searchProgress.bestFitness = ZeroFitness
    /\ generationRef > 0 =>
          /\ bestParams # NoParams
          /\ FitEqual(calculateFitness(bestParams[1]), searchProgress.bestFitness)

\* paused after two generations, the best parameters being a bred
\* individual that improved on the initial pool
C28_Witness ==
    /\ lastEvent = "toggleSearch"
    /\ ~isSearching
    /\ generationRef = 2
    /\ searchProgress.generation = 2
    /\ bestParams # NoParams
    /\ bestParams[1] \notin InitPool
    /\ FitGreater(searchProgress.bestFitness, [num |-> 2, den |-> 86])

\* C29: a toggle that follows a convergence starts the search without
\* initialising it, and the generation it runs adds 1 to the counter, finds
\* the same top fitness on the same population, stops the search again and
\* leaves the population, the best parameters and the best fitness alone.
C29_ResumeAfterConvergence ==
    [][/\ (/\ lastEvent = "runGeneration"
            /\ ExceedsSuccessThreshold(lastTopFitness)
            /\ lastEvent' = "toggleSearch")
          => /\ isSearching'
             /\ generationRef' = generationRef
             /\ generationRef' > 0
             /\ UNCHANGED SearchData
             /\ pendingTimers' # NoTimers
       /\ (/\ lastEvent = "toggleSearch"
            /\ isSearching
            /\ generationRef > 0
            /\ ExceedsSuccessThreshold(lastTopFitness)
            /\ lastEvent' = "runGeneration")
          => /\ generationRef' = generationRef + 1
             /\ searchProgress'.generation = generationRef'
             /\ FitEqual(lastTopFitness', lastTopFitness)
             /\ ~isSearching'
             /\ pendingTimers' = NoTimers
             /\ populationRef' = populationRef
             /\ bestParams' = bestParams
             /\ searchProgress'.bestFitness = searchProgress.bestFitness]_vars

\* the generation after the one that converged has run and stopped
C29_Witness ==
    /\ lastEvent = "runGeneration"
    /\ generationRef = MaxGen + MaxResumed
    /\ ExceedsSuccessThreshold(lastTopFitness)
    /\ ~isSearching
    /\ pendingTimers = NoTimers

----------------------------------------------------------------------------
(* Convergence and the fitness value *)

\* the individual runGeneration would test for convergence, had it ranked
\* the evaluated candidate first
Evaluated == [params |-> fitParams, fitness |-> fitOutcome.value]

NoError ==
    /\ fitOutcome.mismatchError = 0
    /\ fitOutcome.populationError = 0
    /\ fitOutcome.dynamismError = 0

\* the candidate flipped a cell in one of its last STAGNATION_CHECK_LENGTH steps
FlippedLately ==
    LET history == fitOutcome.candidateDynamismHistory
    IN \E k \in 1..Len(history) :
          k > Len(history) - STAGNATION_CHECK_LENGTH /\ history[k] > 0

\* C25: an evaluated individual passes the convergence test only if its
\* three error terms are 0 and it is not stagnant, that is, its thresholded
\* grid equals the ground truth at every step and it flipped a cell in one
\* of the last STAGNATION_CHECK_LENGTH steps; an individual with a non-zero
\* error term, or without such a flip, has fitness at most 1.
C25_ConvergenceNeedsExactMatch ==
    (Returned /\ WellFormed) =>
        /\ converged(Evaluated) => NoError /\ FlippedLately /\ ExactMatch
        /\ (~NoError \/ ~FlippedLately) => fitOutcome.value.num <= fitOutcome.value.den

\* a candidate that passes the convergence test has been evaluated
C25_Witness ==
    /\ Returned
    /\ WellFormed
    /\ converged(Evaluated)
    /\ NoError
    /\ FlippedLately

----------------------------------------------------------------------------
(* The default parameters *)

\* every cell of the grid is |0> or |1>
BasisGrid(grid) ==
    \A y \in DOMAIN grid : \A x \in DOMAIN grid[y] : grid[y][x] \in {QKet0, QKet1}

\* C30: with DEFAULT_PARAMETERS a step on a grid of basis states returns
\* |0> where the input holds |0> and |1> where it holds |1>, whatever the
\* neighbours are, and a further step on that output returns it unchanged.
\* (The bench writes the input amplitudes in fifths, the output in units.)
C30_DefaultIsIdentity ==
    (qOutput # NoGrid /\ qParams = DEFAULT_PARAMETERS /\ BasisGrid(qInput)) =>
        /\ DOMAIN qOutput = DOMAIN qInput
        /\ \A y \in DOMAIN qInput :
              /\ DOMAIN qOutput[y] = DOMAIN qInput[y]
              /\ \A x \in DOMAIN qInput[y] :
                    qOutput[y][x] = IF qInput[y][x] = QKet1 THEN KET1 ELSE KET0
        /\ performQuantumStep(qOutput, qParams) = qOutput

\* a step on a grid of two rows in which a |0> has only |1> neighbours
C30_Witness ==
    /\ qOutput # NoGrid
    /\ qParams = DEFAULT_PARAMETERS
    /\ BasisGrid(qInput)
    /\ DOMAIN qInput = 0..1
    /\ qInput[0][0] = QKet0
    /\ \A y \in DOMAIN qInput : \A x \in DOMAIN qInput[y] :
          <<y, x>> # <<0, 0>> => qInput[y][x] = QKet1
    /\ qOutput[0][0] = KET0

----------------------------------------------------------------------------
(* The parameters a simulation step reads *)

\* a simulationStep ran in the step: by the button, by a frame, or by the
\* effect starting the loop
StepExecuted == lifeGeneration' = lifeGeneration + 1

\* C23: every simulation step, manual or of the animation loop, computes
\* the grid with the params of the state it leaves, that is, with the
\* latest replacement; and no requested frame holds a runSimulation that
\* captured superseded params.
C23_StepsUseCurrentParams ==
    /\ [][StepExecuted =>
            /\ lastStepParams' = <<lifeParams'>>
            /\ lifeGrid' = performQuantumStep(lifeGrid, lifeParams')]_vars
    /\ [](\A id \in DOMAIN pendingFrames :
            /\ pendingFrames[id].params = lifeParams
            /\ id = animationFrameId
            /\ isRunning)

\* the loop is running on parameters that replaced the defaults, a frame
\* has just stepped a populated grid with them and the next is requested
C23_Witness ==
    /\ lifeEvent = "frame"
    /\ isRunning
    /\ lifeParams.w_neighbor # DEFAULT_PARAMETERS.w_neighbor
    /\ lastStepParams = <<lifeParams>>
    /\ lifeGeneration = MaxGeneration
    /\ lifeGrid # createEmptyGrid
    /\ pendingFrames # NoFrames

============================================================================
